---- MODULE Spec2Model ----
(***************************************************************************)
(* Verification model of ragnarbot's orchestration core.                   *)
(*                                                                         *)
(*   FbSpec : the provider-fallback state machine                          *)
(*            (ragnarbot/agent/fallback.py, class FallbackState)           *)
(*   Spec   : the sub-agent manager                                        *)
(*            (ragnarbot/agent/subagent.py, class SubagentManager, with    *)
(*            the profile parser of ragnarbot/agent/agents_loader.py)      *)
(*   ApiSpec, ObsSpec : the manager with the return value of every call    *)
(*            recorded, without and with its read-only calls               *)
(*   LiveSpec : the manager whose runs are scheduled fairly                *)
(*   ModelSpec : the manager spawning with and without a model argument    *)
(*   RegSpec : the manager over every AGENT.md frontmatter of the bounds   *)
(*   LoaderSpec : list_agents / load_agent over workspace and built-in     *)
(*            agent directories (ragnarbot/agent/agents_loader.py)         *)
(*   FileSpec : FallbackState.save / load through the state file           *)
(*   ProviderSpec : message preparation and chat of LiteLLMProvider        *)
(*            (ragnarbot/providers/litellm_provider.py)                    *)
(*   CronSpec : adding jobs through the cron tool                          *)
(*   CompactSpec : compaction of a session history                         *)
(*   WebSpec : outbound frames of WebChannel (ragnarbot/channels/web.py)   *)
(*   ConnSpec : the connection map of WebChannel over several websockets   *)
(*   CancelSpec : the manager whose background runs may be cancelled       *)
(*   RestartSpec : FallbackState saved, loaded by a new process and probed *)
(*   StreamSpec : the stream parsers of the Gemini Code Assist and OpenAI  *)
(*            ChatGPT providers (ragnarbot/providers/gemini_provider.py,   *)
(*            openai_chatgpt_provider.py)                                  *)
(*   BrowserSpec : the idle watchdog of a browser session                  *)
(*            (ragnarbot/agent/tools/browser.py)                           *)
(*                                                                         *)
(* Each specification owns a group of variables and leaves the other       *)
(* groups at their initial values.                                         *)
(***************************************************************************)
EXTENDS Integers, Sequences, FiniteSets, TLC

VARIABLES
    \* ---- FallbackState (fallback.py:15-17) ----
    consecutive_failures,   \* int
    fallback_mode,          \* bool
    last_primary_probe,     \* reading of time.monotonic()
    \* ---- environment and observation of the fallback calls ----
    threshold,              \* the fixed threshold passed to record_primary_failure
    now,                    \* time.monotonic()
    fb_op,                  \* the last FallbackState method called
    fb_ret,                 \* its return value
    fb_prev,                \* <<consecutive_failures, fallback_mode>> before that call,
                            \* and the interval passed to should_probe_primary
    streak,                 \* failures recorded since the last success (history)
    \* ---- the state file of FallbackState (fallback.py:8) ----
    state_file,             \* content of STATE_FILE as its tokens, or NoFile
    loaded,                 \* what the last FallbackState.load() returned or raised
    \* ---- SubagentManager (subagent.py:80-99) ----
    objs,                   \* the AgentTask objects created so far (index = identity)
    _tasks,                 \* self._tasks: task id -> AgentTask (0 = no entry)
    runs,                   \* the _run_agent coroutines created so far
    _async_tasks,           \* self._async_tasks: task id -> coroutine (0 = no entry)
    bus,                    \* messages published with bus.publish_inbound
    browser_manager,        \* self.browser_manager is set
    agent_files,            \* the AGENT.md files the agents loader finds
    progress,               \* the dict a caller holds from its last get_progress
    ret,                    \* the last manager call and what it returned
    \* ---- AgentsLoader (agents_loader.py:31-33) ----
    agents_ret,             \* the last AgentsLoader call and what it returned
    \* ---- LiteLLMProvider (litellm_provider.py) and its caller ----
    chat_messages,          \* the message list the caller holds and passes
    acompletion_calls,      \* the messages of each call of litellm.acompletion
    provider_ret,           \* the last provider call and what it returned
    \* ---- CronTool and CronService (cron store) ----
    wall_clock,             \* datetime.now(), in seconds
    cron_jobs,              \* the jobs of the store, in insertion order
    cron_ret,               \* the last call of the cron tool and what it returned
    \* ---- Compactor and the session it works on ----
    session,                \* the history of the session, oldest message first
    compact_ret,            \* the last call of compact and what it returned
    \* ---- WebChannel (channels/web.py:30-36) ----
    ws_conn,                \* self._connections[chat_id]: "none", "open" or "closed"
    web_sends,              \* the calls of send so far, each with the frames it sent
    ws_handlers,            \* the _handle_websocket coroutines: socket state and local chat_id
    _connections,           \* self._connections over several sockets: chat_id -> socket, 0 = no entry
    \* ---- BrowserSessionManager (agent/tools/browser.py:113-119) ----
    browser_clock,          \* time.time(), in the unit of idle_timeout
    browser_session         \* one browser session: its entry in self._sessions,
                            \* its browser and its idle watchdog

\* The variables of the components that neither FallbackState nor the
\* manager touches
providerVars == <<chat_messages, acompletion_calls, provider_ret>>

cronVars == <<wall_clock, cron_jobs, cron_ret>>

compactVars == <<session, compact_ret>>

connVars == <<ws_handlers, _connections>>

webVars == <<ws_conn, web_sends, connVars>>

browserVars == <<browser_clock, browser_session>>

libVars == <<agents_ret, providerVars, cronVars, compactVars, webVars, browserVars>>

fbOwn == <<consecutive_failures, fallback_mode, last_primary_probe,
           threshold, now, fb_op, fb_ret, fb_prev, streak>>

mgrOwn == <<objs, _tasks, runs, _async_tasks, bus, browser_manager, agent_files, progress, ret>>

fileVars == <<state_file, loaded>>

\* What the manager leaves alone, and what the methods of FallbackState that
\* work on the object in memory leave alone
fbVars == <<fbOwn, fileVars, libVars>>

mgrVars == <<mgrOwn, fileVars, libVars>>

vars == <<fbOwn, fileVars, mgrOwn, libVars>>

\* What the calls of one component leave alone
notLoader   == <<fbOwn, fileVars, mgrOwn, providerVars, cronVars, compactVars, webVars, browserVars>>
notProvider == <<fbOwn, fileVars, mgrOwn, agents_ret, cronVars, compactVars, webVars, browserVars>>
notCron     == <<fbOwn, fileVars, mgrOwn, agents_ret, providerVars, compactVars, webVars, browserVars>>
notCompact  == <<fbOwn, fileVars, mgrOwn, agents_ret, providerVars, cronVars, webVars, browserVars>>
notBrowser  == <<fbOwn, fileVars, mgrOwn, agents_ret, providerVars, cronVars, compactVars, webVars>>
notWeb      == <<fbOwn, fileVars, mgrOwn, agents_ret, providerVars, cronVars, compactVars, browserVars>>

----------------------------------------------------------------------------
(* Bounds *)

MaxThreshold == 3       \* thresholds 1..MaxThreshold are tried
MaxFailures  == 6       \* cap on consecutive_failures
MaxNow       == 3       \* cap on the monotonic clock
MaxInterval  == 2       \* probe intervals 1..MaxInterval
NumIds       == 2       \* task ids 1..NumIds (values of uuid4()[:8])
MaxTasks     == 2       \* cap on the AgentTask objects created
MaxRuns      == 2       \* cap on the _run_agent coroutines created
MaxCalls     == 2       \* longest tool_calls list of one LLM response
MaxReplies   == 1       \* cap on the LLM calls answered, over all runs

----------------------------------------------------------------------------
(* FallbackState *)

\* fallback.py:54  `not self.fallback_mode and self.consecutive_failures >= threshold`
EntersFallback_early(mode, failures, t) == ~mode /\ failures >= t - 1
EntersFallback_off(mode, failures, t) == ~mode /\ failures > t
EntersFallback(mode, failures, t) == ~mode /\ failures >= t

\* fallback.py:53  `self.consecutive_failures += 1`
FailureCount_stuck(failures) == failures
FailureCount(failures) == failures + 1

\* fallback.py:46,49  `was_fallback = self.fallback_mode ... return was_fallback`
SuccessReturn_always(mode) == TRUE
SuccessReturn(mode) == mode

\* fallback.py:63  `(time.monotonic() - self.last_primary_probe) >= interval`
ProbeDue_strict(mode, t, probed, interval) ==
    IF ~mode THEN TRUE ELSE (t - probed) > interval
ProbeDue(mode, t, probed, interval) ==
    IF ~mode THEN TRUE ELSE (t - probed) >= interval

\* No dict returned by get_progress is held
NoProgress == [held |-> FALSE]

\* No manager call has returned yet; op is "untraced" when the return values
\* are not kept and "init" when they are
NoReturn(op) ==
    [op |-> op, kind |-> "", unknown |-> {}, was |-> "", same |-> TRUE,
     touched |-> {}, target |-> 0, value |-> "None"]

\* SubagentManager.__init__ (subagent.py:90-91): no task, no coroutine
MgrFresh ==
    /\ progress = NoProgress
    /\ objs = <<>>
    /\ _tasks = [i \in 1..NumIds |-> 0]
    /\ runs = <<>>
    /\ _async_tasks = [i \in 1..NumIds |-> 0]
    /\ bus = <<>>

\* No AgentsLoader call has been made
LoaderIdle == agents_ret = [op |-> "init"]

\* STATE_FILE does not exist
NoFile == <<"ENOENT">>

\* No state file, and FallbackState.load() has not been called
FileIdle ==
    /\ state_file = NoFile
    /\ loaded = [raised |-> "init"]

\* No provider call has been made
ProviderIdle ==
    /\ chat_messages = <<>>
    /\ acompletion_calls = <<>>
    /\ provider_ret = [op |-> "init"]

\* No cron job, and no call of the cron tool
CronIdle ==
    /\ wall_clock = 0
    /\ cron_jobs = <<>>
    /\ cron_ret = [op |-> "init"]

\* An empty session that was never compacted
CompactIdle ==
    /\ session = <<>>
    /\ compact_ret = [op |-> "init"]

\* No web client, and no call of send
WebIdle ==
    /\ ws_conn = "none"
    /\ web_sends = <<>>
    /\ ws_handlers = <<>>
    /\ _connections = <<>>

\* The components outside FallbackState and the manager are not used
\* browser.py:116-119: no session has been opened
NoSession ==
    [in_map |-> FALSE, browser |-> "none", persistent |-> FALSE, last_activity |-> 0,
     idle_task |-> "none", due |-> 0, closed_by |-> "", closed_at |-> 0]

BrowserIdle ==
    /\ browser_clock = 0
    /\ browser_session = NoSession

LibIdle ==
    /\ FileIdle
    /\ LoaderIdle
    /\ ProviderIdle
    /\ CronIdle
    /\ BrowserIdle
    /\ CompactIdle
    /\ WebIdle

FbInit ==
    /\ MgrFresh
    /\ LibIdle
    /\ browser_manager = FALSE
    /\ agent_files = [workspace |-> <<>>, builtin |-> <<>>]
    /\ ret = NoReturn("untraced")
    /\ consecutive_failures = 0
    /\ fallback_mode = FALSE
    /\ now \in 0..1
    /\ last_primary_probe = now
    /\ threshold \in 1..MaxThreshold
    /\ fb_op = "init"
    /\ fb_ret = FALSE
    /\ fb_prev = <<0, FALSE>>
    /\ streak = 0

\* fallback.py:51-57
record_primary_failure ==
    /\ consecutive_failures < MaxFailures
    /\ LET n == FailureCount(consecutive_failures)
           enter == EntersFallback(fallback_mode, n, threshold)
       IN  /\ consecutive_failures' = n
           /\ fallback_mode' = (IF enter THEN TRUE ELSE fallback_mode)
           /\ fb_ret' = enter
    /\ fb_op' = "failure"
    /\ fb_prev' = <<consecutive_failures, fallback_mode>>
    /\ streak' = streak + 1
    /\ UNCHANGED <<last_primary_probe, threshold, now>>
    /\ UNCHANGED mgrVars

\* fallback.py:44-49
record_primary_success ==
    /\ fb_ret' = SuccessReturn(fallback_mode)
    /\ consecutive_failures' = 0
    /\ fallback_mode' = FALSE
    /\ fb_op' = "success"
    /\ fb_prev' = <<consecutive_failures, fallback_mode>>
    /\ streak' = 0
    /\ UNCHANGED <<last_primary_probe, threshold, now>>
    /\ UNCHANGED mgrVars

\* fallback.py:59-63
should_probe_primary ==
    /\ \E interval \in 1..MaxInterval :
          /\ fb_ret' = ProbeDue(fallback_mode, now, last_primary_probe, interval)
          /\ fb_prev' = <<consecutive_failures, fallback_mode, interval>>
    /\ fb_op' = "should_probe"
    /\ UNCHANGED <<consecutive_failures, fallback_mode, last_primary_probe,
                   threshold, now, streak>>
    /\ UNCHANGED mgrVars

\* fallback.py:65-67
mark_primary_probed ==
    /\ last_primary_probe' = now
    /\ fb_op' = "mark_probed"
    /\ fb_ret' = FALSE
    /\ fb_prev' = <<consecutive_failures, fallback_mode>>
    /\ UNCHANGED <<consecutive_failures, fallback_mode, threshold, now, streak>>
    /\ UNCHANGED mgrVars

\* time.monotonic() advances
Tick ==
    /\ now < MaxNow
    /\ now' = now + 1
    /\ UNCHANGED <<consecutive_failures, fallback_mode, last_primary_probe,
                   threshold, fb_op, fb_ret, fb_prev, streak>>
    /\ UNCHANGED mgrVars

FbNext ==
    \/ record_primary_failure
    \/ record_primary_success
    \/ should_probe_primary
    \/ mark_primary_probed
    \/ Tick

FbSpec == FbInit /\ [][FbNext]_vars

----------------------------------------------------------------------------
(* Claims about FallbackState *)

\* C2: with a fixed threshold T >= 1 and starting from the default state,
\* record_primary_failure returns true on exactly the T-th failure since the
\* last success (or since the start); failures 1..T-1 return false and leave
\* fallback_mode false, and failures recorded in fallback mode return false.
C2_EntryOnExactlyTheThresholdFailure ==
    fb_op = "failure" =>
        /\ fb_ret <=> (streak = threshold)
        /\ (streak < threshold) => ~fallback_mode
        /\ fb_prev[2] => ~fb_ret

C2_Witness ==
    /\ fb_op = "failure" /\ fb_ret /\ streak = threshold /\ threshold >= 2

\* C3: every record_primary_failure increases consecutive_failures by exactly
\* one and every record_primary_success sets it to 0.
C3_FailureAddsOneSuccessResets ==
    /\ fb_op = "failure" => consecutive_failures = fb_prev[1] + 1
    /\ fb_op = "success" => consecutive_failures = 0

C3_Witness ==
    fb_op = "success" /\ fb_prev[1] >= 2 /\ consecutive_failures = 0

\* C4: record_primary_success returns true iff fallback_mode was true just
\* before the call; afterwards fallback_mode is false and
\* consecutive_failures is 0 in every case.
C4_SuccessReportsLeavingFallback ==
    fb_op = "success" =>
        /\ fb_ret <=> fb_prev[2]
        /\ ~fallback_mode
        /\ consecutive_failures = 0

C4_Witness ==
    fb_op = "success" /\ fb_ret /\ fb_prev[2]

\* C32: from the default state and with a fixed threshold T >= 1, every
\* state reached by record_primary_failure(T) and record_primary_success has
\* consecutive_failures >= T whenever fallback_mode is true, and
\* consecutive_failures is never negative.
C32_FallbackModeMeansThresholdReached ==
    /\ fallback_mode => consecutive_failures >= threshold
    /\ consecutive_failures >= 0

\* fallback mode entered on the T-th failure and kept through later ones
C32_Witness ==
    /\ fb_op = "failure"
    /\ fallback_mode
    /\ threshold = MaxThreshold
    /\ consecutive_failures > threshold

\* C28: should_probe_primary is always true while fallback_mode is false;
\* while fallback_mode is true it is true exactly when at least `interval`
\* time units have elapsed since the last mark_primary_probed (the
\* construction of the state counts as one: fallback.py:17).  So a primary
\* attempt that marks the probe is allowed at most once per interval, and
\* again as soon as the interval has elapsed.
C28_ProbeOncePerInterval ==
    [][(fb_op' = "should_probe" /\ now' = now) =>
          /\ ~fallback_mode => fb_ret'
          /\ fallback_mode =>
                (fb_ret' <=> now - last_primary_probe >= fb_prev'[3])]_vars

\* a probe allowed exactly one interval after a mark_primary_probed (the
\* state is constructed at time 0 or 1, so a probe time of 2 is a mark)
C28_Witness ==
    /\ fb_op = "should_probe"
    /\ fallback_mode
    /\ fb_ret
    /\ last_primary_probe = 2
    /\ now - last_primary_probe = fb_prev[3]

----------------------------------------------------------------------------
(* Agent profiles: ragnarbot/agent/agents_loader.py                        *)
(*                                                                         *)
(* A frontmatter value is a string, kept here as the sequence of its       *)
(* tokens: "[", "]", ",", " " and words.  Join gives the string back.      *)

RECURSIVE Join(_)
Join(toks) == IF toks = <<>> THEN "" ELSE Head(toks) \o Join(Tail(toks))

\* str.strip(): blanks removed at both ends
RECURSIVE LStrip(_)
LStrip(toks) ==
    IF toks # <<>> /\ Head(toks) = " " THEN LStrip(Tail(toks)) ELSE toks

RECURSIVE RStrip(_)
RStrip(toks) ==
    IF toks # <<>> /\ toks[Len(toks)] = " "
    THEN RStrip(SubSeq(toks, 1, Len(toks) - 1)) ELSE toks

Strip(toks) == RStrip(LStrip(toks))

\* str.split(","): the pieces between the commas, empty pieces included
RECURSIVE SplitFrom(_, _)
SplitFrom(toks, cur) ==
    IF toks = <<>> THEN <<cur>>
    ELSE IF Head(toks) = "," THEN <<cur>> \o SplitFrom(Tail(toks), <<>>)
    ELSE SplitFrom(Tail(toks), Append(cur, Head(toks)))

Split(toks) == SplitFrom(toks, <<>>)

\* agents_loader.py:138  [t.strip() for t in inner.split(",") if t.strip()]
RECURSIVE StripItems(_)
StripItems(pieces) ==
    IF pieces = <<>> THEN <<>>
    ELSE IF Strip(Head(pieces)) = <<>> THEN StripItems(Tail(pieces))
    ELSE <<Join(Strip(Head(pieces)))>> \o StripItems(Tail(pieces))

\* agents_loader.py:135  allowed_raw.startswith("[") and allowed_raw.endswith("]")
Bracketed(raw) == Len(raw) >= 1 /\ raw[1] = "[" /\ raw[Len(raw)] = "]"

\* agents_loader.py:137  allowed_raw[1:-1]
Inner(raw) == SubSeq(raw, 2, Len(raw) - 1)

\* A parsed allowedTools / allowedSkills value: a str or a list of str
StrValue(text) == [list |-> FALSE, str |-> text, items |-> <<>>]
ListValue(items) == [list |-> TRUE, str |-> "", items |-> items]

\* agents_loader.py:131-140
ParseAllowedTools(raw) ==
    IF Join(raw) = "all" THEN StrValue("all")
    ELSE IF Bracketed(raw) THEN ListValue(StripItems(Split(Inner(raw))))
    ELSE StrValue(Join(raw))

\* agents_loader.py:142-150
ParseAllowedSkills(raw) ==
    IF Join(raw) \in {"all", "none"} THEN StrValue(Join(raw))
    ELSE IF Bracketed(raw) THEN ListValue(StripItems(Split(Inner(raw))))
    ELSE StrValue(Join(raw))

\* The AGENT.md files of the workspace and built-in agent directories that
\* the manager specifications start with: for each agent name the frontmatter
\* keys that are present (after _parse_frontmatter, agents_loader.py:162-176).
AgentFiles ==
    [ builtin |->
        [ researcher |-> [allowedTools |-> <<"[", "web_search", ",", " ", "web_fetch", "]">>,
                          model |-> <<"provider/research-model">>],
          writer     |-> [allowedTools |-> <<"[", "file_write", ",", "exec", "]">>,
                          model |-> <<"default">>,
                          allowedSkills |-> <<"[", "some-skill", "]">>] ],
      workspace |->
        [ bad_agent  |-> [allowedTools |-> <<"[", "send_photo", ",", " ", "cron", "]">>],
          bare_agent |-> [allowedTools |-> <<"send_photo">>] ] ]

\* agent names a caller may pass; "ghost" has no AGENT.md
AgentNames == DOMAIN AgentFiles.workspace \cup DOMAIN AgentFiles.builtin \cup {"ghost"}

\* The directory names of the model in the order sorted() gives them
SortedNames == <<"bad_agent", "bare_agent", "probe", "researcher", "writer">>

\* dict.get(key, default)
MetaGet(meta, key, default) == IF key \in DOMAIN meta THEN meta[key] ELSE default

NoDefinition ==
    [some |-> FALSE, name |-> "", description |-> "", model |-> "default",
     allowed_tools |-> StrValue("all"), allowed_skills |-> StrValue("none"),
     path |-> <<>>]

\* agents_loader.py:125-160: the AGENT.md of directory `name` under the
\* workspace or the built-in agents directory, parsed
_parse_agent(source, name) ==
    LET meta == agent_files[source][name]
    IN  [some |-> TRUE, name |-> Join(MetaGet(meta, "name", <<name>>)),
         description |-> Join(MetaGet(meta, "description", <<>>)),
         model |-> Join(MetaGet(meta, "model", <<"default">>)),
         allowed_tools  |-> ParseAllowedTools(MetaGet(meta, "allowedTools", <<"all">>)),
         allowed_skills |-> ParseAllowedSkills(MetaGet(meta, "allowedSkills", <<"none">>)),
         path |-> <<source, name>>]

\* agents_loader.py:78-99
load_agent_builtin_first(name) ==
    IF name \in DOMAIN agent_files.builtin THEN _parse_agent("builtin", name)
    ELSE IF name \in DOMAIN agent_files.workspace THEN _parse_agent("workspace", name)
    ELSE NoDefinition
load_agent(name) ==
    IF name \in DOMAIN agent_files.workspace THEN _parse_agent("workspace", name)
    ELSE IF name \in DOMAIN agent_files.builtin THEN _parse_agent("builtin", name)
    ELSE NoDefinition

\* agents_loader.py:46-59, 63-74: one dict for each directory of `source`
\* that holds an AGENT.md and whose name is not in `seen`, in sorted() order
ListedFrom(source, seen) ==
    LET dir == agent_files[source]
        names == SelectSeq(SortedNames, LAMBDA n : n \in DOMAIN dir /\ n \notin seen)
    IN  [i \in 1..Len(names) |->
            [name |-> names[i],
             description |-> Join(MetaGet(dir[names[i]], "description", <<names[i]>>)),
             path |-> <<source, names[i]>>,
             source |-> source]]

\* agents_loader.py:35-76
list_agents == ListedFrom("workspace", {}) \o ListedFrom("builtin", DOMAIN agent_files.workspace)

----------------------------------------------------------------------------
(* Tool registry of a sub-agent: subagent.py:501-600                       *)

\* subagent.py:24-28
SAFE_TOOL_NAMES ==
    {"file_read", "file_write", "file_edit", "list_dir",
     "exec", "web_search", "web_fetch", "browser",
     "exec_bg", "poll", "output", "kill", "dismiss"}

Range(seq) == {seq[i] : i \in 1..Len(seq)}

\* subagent.py:132-134  set(definition.allowed_tools) - SAFE_TOOL_NAMES,
\* computed only for a list
UnknownTools(definition) ==
    IF definition.some /\ definition.allowed_tools.list
    THEN Range(definition.allowed_tools.items) \ SAFE_TOOL_NAMES
    ELSE {}

\* subagent.py:532-537
AllowedBase(definition) ==
    IF definition.some /\ definition.allowed_tools # StrValue("all")
    THEN IF definition.allowed_tools.list
         THEN Range(definition.allowed_tools.items)
         ELSE {definition.allowed_tools.str}
    ELSE SAFE_TOOL_NAMES

\* subagent.py:539-542
Allowed_as_listed(definition) == AllowedBase(definition)
Allowed(definition) ==
    IF definition.some /\ definition.allowed_skills # StrValue("none")
    THEN AllowedBase(definition) \cup {"file_read"}
    ELSE AllowedBase(definition)

\* The name property of the tool classes of tools/filesystem.py
\* (ReadFileTool :19, WriteFileTool :90, EditFileTool :130, ListDirTool :188)
\* and of BrowserTool (tools/browser.py:601), by the key that admits them.
FileToolName(key) ==
    CASE key = "file_read"  -> "file_read"
      [] key = "file_write" -> "write_file"
      [] key = "file_edit"  -> "edit_file"
      [] key = "list_dir"   -> "list_dir"
      [] key = "browser"    -> "browser"

\* The name property of the tool classes whose modules are tools/shell.py,
\* tools/web.py, tools/background.py and tools/deliver_result.py
OtherToolName(key) == key

\* subagent.py:544-594: the names under which the admitted tools are registered
AdmittedToolNames(definition, has_browser) ==
    LET allowed == Allowed(definition)
    IN  {FileToolName(k) : k \in allowed \cap {"file_read", "file_write", "file_edit", "list_dir"}}
        \cup {OtherToolName(k) : k \in allowed \cap {"exec", "web_search", "web_fetch"}}
        \cup (IF "browser" \in allowed /\ has_browser THEN {FileToolName("browser")} ELSE {})
        \cup {OtherToolName(k) : k \in allowed \cap {"exec_bg", "poll", "output", "kill", "dismiss"}}

\* subagent.py:501-600: the names in the registry that is returned;
\* deliver_result is registered in every case (596-598)
_build_agent_tool_registry_if_any(definition, has_browser) ==
    IF AdmittedToolNames(definition, has_browser) = {} THEN {}
    ELSE AdmittedToolNames(definition, has_browser) \cup {OtherToolName("deliver_result")}
_build_agent_tool_registry(definition, has_browser) ==
    AdmittedToolNames(definition, has_browser) \cup {OtherToolName("deliver_result")}

----------------------------------------------------------------------------
(* Sub-agent manager: subagent.py                                          *)

Origins == {<<"cli", "direct">>, <<"web", "c1">>}

\* None for the optional agent_name argument
NoAgent == ""

\* The messages of a conversation.  content is kept as a tag.
Msg(role, content) ==
    [role |-> role, content |-> content, tool_calls |-> <<>>,
     tool_call_id |-> "", name |-> ""]

AssistantMsg(calls) ==
    [role |-> "assistant", content |-> "", tool_calls |-> calls,
     tool_call_id |-> "", name |-> ""]

ToolMsg(tc, content) ==
    [role |-> "tool", content |-> content, tool_calls |-> <<>>,
     tool_call_id |-> tc.id, name |-> tc.name]

\* The tool calls an LLM response may carry
ToolCalls ==
    { [id |-> "c1", name |-> "exec"],
      [id |-> "c2", name |-> "web_search"],
      [id |-> "c3", name |-> "deliver_result"] }

ToolCallLists == UNION {[1..n -> ToolCalls] : n \in 1..MaxCalls}

\* What awaiting self._chat_fn may produce: an exception ("raise"), or a
\* tuple (response, used_fallback, _) whose response is None ("none"), has
\* finish_reason "error", is a text without tool calls (its content possibly
\* empty), or carries tool calls.
Responses ==
    {[kind |-> "raise", calls |-> <<>>, finish |-> "None", content |-> "",
      used_fallback |-> FALSE]}
    \cup {[kind |-> k, calls |-> <<>>, finish |-> IF k = "error" THEN "error" ELSE "None",
           content |-> IF k = "error" THEN "both providers failed" ELSE "",
           used_fallback |-> u] : k \in {"none", "error"}, u \in BOOLEAN}
    \cup {[kind |-> "text", calls |-> <<>>, finish |-> "stop", content |-> c,
           used_fallback |-> u] : c \in {"", "done"}, u \in BOOLEAN}
    \cup {[kind |-> "calls", calls |-> c, finish |-> f, content |-> "",
           used_fallback |-> u] :
             c \in ToolCallLists, f \in {"tool_calls", "length"}, u \in BOOLEAN}

\* subagent.py:84  self.model = model or provider.get_default_model()
SelfModel == "manager-model"

\* None for the optional model argument of spawn
NoModel == ""

\* subagent.py:144-149  explicit > AGENT.md > self.model
ResolveModel_profile_first(model, definition) ==
    IF definition.some /\ definition.model # "default" THEN definition.model
    ELSE IF model # NoModel THEN model
    ELSE SelfModel
ResolveModel(model, definition) ==
    IF model # NoModel THEN model
    ELSE IF definition.some /\ definition.model # "default" THEN definition.model
    ELSE SelfModel

\* subagent.py:624-628: the words of the announcement for the status passed
\* to _announce_result ("ok" with completed, "error", "stopped")
StatusText(status) ==
    CASE status = "completed" -> "completed successfully"
      [] status = "error"     -> "failed"
      [] status = "stopped"   -> "was stopped"

\* subagent.py:630  task.result or task.error or "No output."
ResultContent(task) ==
    IF task.result \notin {"None", ""} THEN task.result
    ELSE IF task.error \notin {"None", ""} THEN task.error
    ELSE "No output."

\* subagent.py:642  f"{task.origin['channel']}:{task.origin['chat_id']}"
AnnounceChatId_channel(origin) == origin.channel
AnnounceChatId(origin) == origin.channel \o ":" \o origin.chat_id

\* FallbackState is not used by the manager: it stays at its default
FbIdle ==
    /\ consecutive_failures = 0
    /\ fallback_mode = FALSE
    /\ now = 0
    /\ last_primary_probe = 0
    /\ threshold = 1
    /\ fb_op = "init"
    /\ fb_ret = FALSE
    /\ fb_prev = <<0, FALSE>>
    /\ streak = 0

\* SubagentManager(...) as the tests build it, browser_manager=None
MgrInit ==
    /\ MgrFresh
    /\ FbIdle
    /\ LibIdle
    /\ browser_manager = FALSE
    /\ agent_files = AgentFiles
    /\ ret = NoReturn("untraced")

\* SubagentManager(...) with or without a browser manager, return values kept
ApiInit ==
    /\ MgrFresh
    /\ FbIdle
    /\ LibIdle
    /\ browser_manager \in BOOLEAN
    /\ agent_files = AgentFiles
    /\ ret = NoReturn("init")

\* What a manager call returned.  The last return value is recorded only in
\* the behaviours that start with ret.op = "init"; with ret.op = "untraced"
\* it is not kept.
\* `was` is the status the task had when the call was made ("" when the
\* call names no tracked task); `same` tells whether the call left the task
\* map, the tasks, the runs and the bus as they were; `touched` is the set of
\* the <<AgentTask, field>> it changed; `target` is the AgentTask tracked
\* under the id passed to the call (0 without one); `value` is the returned
\* value of the calls that return one.
TaskFields == {"status", "messages", "result", "error", "stop_event"}

ReturnedValue(op, kind, unknown, was, value) ==
    IF ret.op = "untraced" THEN ret
    ELSE [op |-> op, kind |-> kind, unknown |-> unknown, was |-> was,
          same |-> (<<objs, _tasks, runs, _async_tasks, bus>>'
                      = <<objs, _tasks, runs, _async_tasks, bus>>),
          touched |-> {p \in (1..Len(objs)) \X TaskFields :
                         objs'[p[1]][p[2]] # objs[p[1]][p[2]]},
          target |-> 0,
          value |-> value]

\* The return of a call that names a task by its id
OnTask(id, returned) ==
    IF ret.op = "untraced" THEN ret ELSE [returned EXCEPT !.target = _tasks[id]]

ReturnedWith(op, kind, unknown, was) == ReturnedValue(op, kind, unknown, was, "None")

Returned(op, kind) == ReturnedWith(op, kind, {}, "")

\* task.status of the task tracked under id, "" without one
StatusOf(id) == IF _tasks[id] = 0 THEN "" ELSE objs[_tasks[id]].status

\* subagent.py:153-166: the AgentTask built by spawn
NewAgentTask(id, agent_name, definition, model, origin) ==
    [id |-> id, agent_name |-> agent_name, definition |-> definition,
     resolved_model |-> ResolveModel(model, definition),
     rebound |-> FALSE,
     model_arg |-> model,
     status |-> "running", messages |-> <<>>, stop_event |-> FALSE,
     result |-> "None", error |-> "None",
     origin |-> [channel |-> origin[1], chat_id |-> origin[2]],
     spawn_args |-> origin]

\* asyncio.create_task(self._run_agent(task, ..., tools, deliver_tool, resume))
\* with the locals of the coroutine and what it has done so far:
\*   kind, content, calls, finish   its last LLM response
\*   llm_models         the model argument of each LLM call it made
\*   llm_after_stop     it made an LLM call although the stop flag was set
\*   on_fallback_batch  the argument tuples of its self._on_fallback_batch calls
NewRun(task, id, model, tools, resume) ==
    [task |-> task, id |-> id, model |-> model, tools |-> tools, resume |-> resume,
     pc |-> "start", messages |-> <<>>, deliver_result |-> FALSE,
     calls |-> <<>>, finish |-> "None", next |-> 0, executed |-> <<>>,
     replies |-> 0, announce |-> "None",
     batch_used_fallback |-> FALSE, on_fallback_batch |-> <<>>,
     llm_models |-> {}, llm_after_stop |-> FALSE,
     kind |-> "None", content |-> "None"]

\* subagent.py:141-189: spawn after its two validations
SpawnTask(agent_name, definition, model, id, origin) ==
    LET task == Len(objs) + 1
        tools == _build_agent_tool_registry(definition, browser_manager)
    IN  /\ objs' = Append(objs, NewAgentTask(id, agent_name, definition, model, origin))
        /\ _tasks' = [_tasks EXCEPT ![id] = task]
        /\ runs' = Append(runs, NewRun(task, id, ResolveModel(model, definition),
                                       tools, FALSE))
        /\ _async_tasks' = [_async_tasks EXCEPT ![id] = Len(runs) + 1]

\* A spawn that stores the AgentTask before it validates the profile
spawn_store_first(agent_name, model, id, origin) ==
    /\ UNCHANGED <<bus, browser_manager, agent_files, progress>>
    /\ UNCHANGED fbVars
    /\ Len(objs) < MaxTasks /\ Len(runs) < MaxRuns
    /\ LET definition == IF agent_name # NoAgent THEN load_agent(agent_name)
                         ELSE NoDefinition
       IN  /\ objs' = Append(objs, NewAgentTask(id, agent_name, definition, model, origin))
           /\ _tasks' = [_tasks EXCEPT ![id] = Len(objs) + 1]
           /\ IF agent_name # NoAgent /\ ~definition.some
              THEN /\ UNCHANGED <<runs, _async_tasks>>
                   /\ ret' = Returned("spawn", "agent_not_found")
              ELSE IF UnknownTools(definition) # {}
              THEN /\ UNCHANGED <<runs, _async_tasks>>
                   /\ ret' = ReturnedWith("spawn", "unknown_tools",
                                          UnknownTools(definition), "")
              ELSE /\ runs' = Append(runs, NewRun(Len(objs) + 1, id,
                              ResolveModel(model, definition),
                              _build_agent_tool_registry(definition, browser_manager), FALSE))
                   /\ _async_tasks' = [_async_tasks EXCEPT ![id] = Len(runs) + 1]
                   /\ ret' = Returned("spawn", "started")

\* subagent.py:101-189.  id is the value of str(uuid.uuid4())[:8].
spawn(agent_name, model, id, origin) ==
    /\ UNCHANGED <<bus, browser_manager, agent_files, progress>>
    /\ UNCHANGED fbVars
    /\ LET definition == IF agent_name # NoAgent THEN load_agent(agent_name)
                         ELSE NoDefinition
       IN  IF agent_name # NoAgent /\ ~definition.some
           THEN /\ UNCHANGED <<objs, _tasks, runs, _async_tasks>>
                /\ ret' = Returned("spawn", "agent_not_found")
           ELSE IF UnknownTools(definition) # {}
           THEN /\ UNCHANGED <<objs, _tasks, runs, _async_tasks>>
                /\ ret' = ReturnedWith("spawn", "unknown_tools",
                                       UnknownTools(definition), "")
           ELSE /\ Len(objs) < MaxTasks /\ Len(runs) < MaxRuns
                /\ SpawnTask(agent_name, definition, model, id, origin)
                /\ ret' = Returned("spawn", "started")

\* The two lists a run appends to: its local `messages` and task.messages
AppendBoth(st, msgs) ==
    [st EXCEPT !.task.messages = @ \o msgs, !.run.messages = @ \o msgs]

\* Leaving the loop towards _announce_result with a final status
Finish(st, status, result, error) ==
    [st EXCEPT !.task.status = status, !.task.result = result,
               !.task.error = error,
               !.run.pc = "announce", !.run.announce = status]

\* subagent.py:227-232: self._chat_fn is called with the run's model
CallLLM(st) ==
    [st EXCEPT !.run.pc = "llm",
               !.run.llm_models = @ \cup {st.run.model},
               !.run.llm_after_stop = @ \/ st.task.stop_event]

\* subagent.py:217-232: the top of the loop, up to the await of the LLM call
LoopTop_deaf(st) == CallLLM(st)
LoopTop(st) ==
    IF st.task.stop_event
    THEN Finish(st, "stopped", "Task was stopped by user.", st.task.error)
    ELSE CallLLM(st)

\* subagent.py:272-286: one error message per call of a truncated response
RECURSIVE CutOffMsgs(_)
CutOffMsgs(calls) ==
    IF calls = <<>> THEN <<>>
    ELSE <<ToolMsg(Head(calls), "Error: response was cut off")>> \o CutOffMsgs(Tail(calls))

\* A step of run r ends with the task and the run written back.  The run
\* holds its AgentTask by reference (the `task` parameter of _run_agent); it
\* does not look it up in self._tasks.
Store_by_id(r, st) ==
    /\ objs' = [objs EXCEPT ![IF _tasks[runs[r].id] # 0 THEN _tasks[runs[r].id]
                               ELSE runs[r].task] = st.task]
    /\ runs' = [runs EXCEPT ![r] = st.run]
Store(r, st) ==
    /\ objs' = [objs EXCEPT ![runs[r].task] = st.task]
    /\ runs' = [runs EXCEPT ![r] = st.run]

State(r) == [task |-> objs[runs[r].task], run |-> runs[r]]

\* subagent.py:204-232: the coroutine starts and runs to its first await
RunStart(r) ==
    /\ runs[r].pc = "start"
    /\ LET st == State(r)
           fresh == <<Msg("system", "system_prompt"), Msg("user", "task")>>
           st1 == IF st.run.resume
                  THEN [st EXCEPT !.run.messages = st.task.messages]
                  ELSE [st EXCEPT !.run.messages = fresh, !.task.messages = fresh,
                                  !.task.rebound = TRUE]
       IN  Store(r, LoopTop(st1))
    /\ UNCHANGED <<_tasks, _async_tasks, bus, browser_manager, agent_files, progress, ret>>
    /\ UNCHANGED fbVars

\* The LLM calls answered so far in the first n runs
RECURSIVE Replies(_)
Replies(n) == IF n = 0 THEN 0 ELSE runs[n].replies + Replies(n - 1)

\* subagent.py:241-263, 289: a response with tool calls is recorded
TakeCalls_silent(st, resp) ==
    [st EXCEPT !.run.calls = resp.calls, !.run.finish = resp.finish,
               !.run.executed = <<>>]
TakeCalls(st, resp) ==
    [AppendBoth(st, <<AssistantMsg(resp.calls)>>)
        EXCEPT !.run.calls = resp.calls, !.run.finish = resp.finish,
               !.run.executed = <<>>]

\* subagent.py:236-239, 319-321: str(e) of the exception that ends the run
ErrorText(resp) ==
    CASE resp.kind = "raise" -> "exception in chat_fn"
      [] resp.kind = "none"  -> "LLM call failed"
      [] resp.kind = "error" -> resp.content

\* subagent.py:267  `if response.finish_reason == "length":`
Truncated_never(resp) == FALSE
Truncated(resp) == resp.finish = "length"

\* subagent.py:314  response.content or "Task completed (no output)."
TextResult_content(content) == content
TextResult(content) ==
    IF content = "" THEN "Task completed (no output)." ELSE content

\* The LLM calls answered are capped at MaxReplies over all runs; a call
\* made after that stays in flight
MayReply == Replies(Len(runs)) < MaxReplies

\* subagent.py:227-317: the LLM call returns, the run goes on to its next await
LLMReply(r, resp) ==
    /\ runs[r].pc = "llm"
    /\ MayReply
    /\ LET st == [State(r) EXCEPT !.run.replies = @ + 1,
                                  !.run.batch_used_fallback = @ \/ resp.used_fallback,
                                  !.run.kind = resp.kind,
                                  !.run.content = resp.content,
                                  !.run.calls = resp.calls,
                                  !.run.finish = resp.finish]
       IN  CASE resp.kind \in {"raise", "none", "error"} ->
                  Store(r, Finish(st, "error", st.task.result, ErrorText(resp)))
             [] resp.kind = "text" ->
                  Store(r, Finish(st, "completed", TextResult(resp.content), st.task.error))
             [] resp.kind = "calls" /\ Truncated(resp) ->
                  Store(r, LoopTop(AppendBoth(TakeCalls(st, resp), CutOffMsgs(resp.calls))))
             [] resp.kind = "calls" /\ ~Truncated(resp) ->
                  Store(r, [TakeCalls(st, resp) EXCEPT !.run.pc = "tool", !.run.next = 1])
    /\ UNCHANGED <<_tasks, _async_tasks, bus, browser_manager, agent_files, progress, ret>>
    /\ UNCHANGED fbVars

\* subagent.py:290  `for tc in response.tool_calls:` -- the call in flight
PendingCall_backwards(calls, next) == calls[Len(calls) + 1 - next]
PendingCall(calls, next) == calls[next]

\* subagent.py:290-310: tools.execute returns for the call in flight
ToolDone(r) ==
    /\ runs[r].pc = "tool"
    /\ LET st == State(r)
           tc == PendingCall(st.run.calls, st.run.next)
           delivered == st.run.deliver_result
                        \/ (tc.name = "deliver_result" /\ tc.name \in st.run.tools)
           st1 == [AppendBoth(st, <<ToolMsg(tc, "result")>>)
                     EXCEPT !.run.executed = Append(@, tc.id),
                            !.run.deliver_result = delivered]
       IN  IF st.run.next < Len(st.run.calls)
           THEN Store(r, [st1 EXCEPT !.run.next = @ + 1])
           ELSE IF delivered
           THEN Store(r, Finish(st1, "completed", "delivered", st1.task.error))
           ELSE Store(r, LoopTop(st1))
    /\ UNCHANGED <<_tasks, _async_tasks, bus, browser_manager, agent_files, progress, ret>>
    /\ UNCHANGED fbVars

\* subagent.py:223-224, 325-332: after the announcement of a stop the
\* coroutine returns; otherwise it goes on to the fallback accounting, which
\* calls self._on_fallback_batch when a call of the run used the fallback
FallbackBatchCalls(run, origin) ==
    IF run.announce # "stopped" /\ run.batch_used_fallback
    THEN <<<<TRUE, origin.channel, origin.chat_id>>>>
    ELSE <<>>

\* subagent.py:602-650, 325-332 and the done callback of :180 / :407
\* (self._async_tasks.pop(task_id, None)): the result is published, the
\* fallback accounting is done and the coroutine ends
Announce(r) ==
    /\ runs[r].pc = "announce"
    /\ bus' = Append(bus, [channel |-> "system", sender_id |-> "subagent",
                           chat_id |-> AnnounceChatId(objs[runs[r].task].origin),
                           status |-> runs[r].announce,
                           status_text |-> StatusText(runs[r].announce),
                           result_content |-> ResultContent(objs[runs[r].task]),
                           task |-> runs[r].task, run |-> r])
    /\ runs' = [runs EXCEPT ![r].pc = "done",
                            ![r].on_fallback_batch =
                                @ \o FallbackBatchCalls(runs[r], objs[runs[r].task].origin)]
    /\ _async_tasks' = [_async_tasks EXCEPT ![runs[r].id] = 0]
    /\ UNCHANGED <<objs, _tasks, browser_manager, agent_files, progress, ret>>
    /\ UNCHANGED fbVars

\* subagent.py:384  `if task.status == AgentTaskStatus.running: return "Error..."`
RefusesMessage_never(status) == FALSE
RefusesMessage(status) == status = "running"

\* subagent.py:442  `if task.status == AgentTaskStatus.running: return "Error..."`
RefusesDismiss(status) == status = "running"

\* subagent.py:379-410
send_message(id) ==
    /\ UNCHANGED <<_tasks, bus, browser_manager, agent_files, progress>>
    /\ UNCHANGED fbVars
    /\ IF _tasks[id] = 0
       THEN /\ UNCHANGED <<objs, runs, _async_tasks>>
            /\ ret' = OnTask(id, ReturnedWith("send_message", "not_found", {}, StatusOf(id)))
       ELSE IF RefusesMessage(objs[_tasks[id]].status)
       THEN /\ UNCHANGED <<objs, runs, _async_tasks>>
            /\ ret' = OnTask(id, ReturnedWith("send_message", "still_running", {}, StatusOf(id)))
       ELSE /\ Len(runs) < MaxRuns
            /\ LET task == _tasks[id]
                   tools == _build_agent_tool_registry(objs[task].definition,
                                                       browser_manager)
               IN  /\ objs' = [objs EXCEPT
                                 ![task].messages = Append(@, Msg("user", "follow_up")),
                                 ![task].status = "running",
                                 ![task].result = "None",
                                 ![task].error = "None",
                                 ![task].stop_event = FALSE]
                   /\ runs' = Append(runs, NewRun(task, id, objs[task].resolved_model,
                                                  tools, TRUE))
                   /\ _async_tasks' = [_async_tasks EXCEPT ![id] = Len(runs) + 1]
            /\ ret' = OnTask(id, ReturnedWith("send_message", "resumed", {}, StatusOf(id)))

\* subagent.py:412-421
stop_task(id) ==
    /\ UNCHANGED <<_tasks, runs, _async_tasks, bus, browser_manager, agent_files, progress>>
    /\ UNCHANGED fbVars
    /\ IF _tasks[id] = 0
       THEN /\ UNCHANGED objs
            /\ ret' = OnTask(id, Returned("stop_task", "not_found"))
       ELSE IF objs[_tasks[id]].status # "running"
       THEN /\ UNCHANGED objs
            /\ ret' = OnTask(id, Returned("stop_task", "already_" \o objs[_tasks[id]].status))
       ELSE /\ objs' = [objs EXCEPT ![_tasks[id]].stop_event = TRUE]
            /\ ret' = OnTask(id, Returned("stop_task", "stop_sent"))

\* subagent.py:437-445
dismiss_task(id) ==
    /\ UNCHANGED <<objs, runs, _async_tasks, bus, browser_manager, agent_files, progress>>
    /\ UNCHANGED fbVars
    /\ IF _tasks[id] = 0
       THEN /\ UNCHANGED _tasks
            /\ ret' = OnTask(id, ReturnedWith("dismiss_task", "not_found", {}, StatusOf(id)))
       ELSE IF RefusesDismiss(objs[_tasks[id]].status)
       THEN /\ UNCHANGED _tasks
            /\ ret' = OnTask(id, ReturnedWith("dismiss_task", "cannot_dismiss_running", {}, StatusOf(id)))
       ELSE /\ _tasks' = [_tasks EXCEPT ![id] = 0]
            /\ ret' = OnTask(id, ReturnedWith("dismiss_task", "dismissed", {}, StatusOf(id)))

\* subagent.py:359-364: how many calls of each tool the assistant messages carry
ToolCounts(messages) ==
    LET at == {<<i, k>> \in (1..Len(messages)) \X (1..MaxCalls) :
                  /\ messages[i].role = "assistant"
                  /\ k <= Len(messages[i].tool_calls)}
    IN  [n \in {messages[c[1]].tool_calls[c[2]].name : c \in at} |->
            Cardinality({c \in at : messages[c[1]].tool_calls[c[2]].name = n})]

\* subagent.py:366-377: the dict returned for AgentTask t.  "messages" is
\* task.messages itself, not a copy: `list` names the list object (the list
\* the task was created with, or the one _run_agent bound at line 215) and
\* `messages` keeps what it held when the dict was returned.
ProgressOf(t) ==
    [held |-> TRUE, task |-> t, status |-> objs[t].status,
     result |-> objs[t].result, error |-> objs[t].error,
     message_count |-> Len(objs[t].messages),
     tool_counts |-> ToolCounts(objs[t].messages),
     messages |-> objs[t].messages,
     list |-> IF objs[t].rebound THEN "bound by the run" ELSE "created by spawn"]

\* What the "messages" entry of a held dict shows now: the present content
\* of the list it refers to.  The list created by spawn stays empty: nothing
\* is appended before _run_agent binds a new one.
MessagesSeenIn(dict) ==
    CASE dict.list = "bound by the run" -> objs[dict.task].messages
      [] dict.list = "created by spawn" ->
            IF objs[dict.task].rebound THEN <<>> ELSE objs[dict.task].messages

\* subagent.py:334-377
get_progress(id) ==
    /\ UNCHANGED <<objs, _tasks, runs, _async_tasks, bus, browser_manager, agent_files>>
    /\ UNCHANGED fbVars
    /\ IF _tasks[id] = 0
       THEN /\ UNCHANGED progress
            /\ ret' = OnTask(id, ReturnedWith("get_progress", "not_found", {}, StatusOf(id)))
       ELSE /\ progress' = ProgressOf(_tasks[id])
            /\ ret' = OnTask(id, ReturnedWith("get_progress", "progress", {}, StatusOf(id)))

\* subagent.py:423-435
list_tasks ==
    /\ UNCHANGED <<objs, _tasks, runs, _async_tasks, bus, browser_manager, agent_files, progress>>
    /\ UNCHANGED fbVars
    /\ ret' = ReturnedValue("list_tasks", "listed", {}, "",
                 {[id |-> id, agent |-> objs[_tasks[id]].agent_name,
                   status |-> objs[_tasks[id]].status,
                   message_count |-> Len(objs[_tasks[id]].messages)] :
                      id \in {i \in 1..NumIds : _tasks[i] # 0}})

\* subagent.py:447-449
get_running_count ==
    /\ UNCHANGED <<objs, _tasks, runs, _async_tasks, bus, browser_manager, agent_files, progress>>
    /\ UNCHANGED fbVars
    /\ ret' = ReturnedValue("get_running_count", "counted", {}, "",
                 Cardinality({id \in 1..NumIds :
                    _tasks[id] # 0 /\ objs[_tasks[id]].status = "running"}))

\* str(uuid.uuid4())[:8] is any 8-digit value.  The values are opaque, so a
\* value that no AgentTask has had yet is named by the least unused number;
\* a value that an earlier AgentTask was given may come again.
UsedIds == {objs[i].id : i \in 1..Len(objs)}
SpawnIds == {id \in 1..NumIds : id \in UsedIds \/ \A j \in 1..(id - 1) : j \in UsedIds}

\* The responses without tool calls of a primary provider: an exception, an
\* error response, a text
PlainResponses ==
    {resp \in Responses :
        /\ resp.kind \in {"raise", "error", "text"}
        /\ ~resp.used_fallback
        /\ resp.kind = "text" => resp.content = "done"}

Next ==
    \/ \E agent_name \in {NoAgent, "ghost", "bad_agent"}, id \in SpawnIds, origin \in Origins :
          spawn(agent_name, NoModel, id, origin)
    \/ \E id \in 1..NumIds : send_message(id)
    \/ \E id \in 1..NumIds : stop_task(id)
    \/ \E id \in 1..NumIds : dismiss_task(id)
    \/ \E r \in 1..Len(runs) : RunStart(r)
    \/ \E r \in 1..Len(runs), resp \in Responses : LLMReply(r, resp)
    \/ \E r \in 1..Len(runs) : ToolDone(r)
    \/ \E r \in 1..Len(runs) : Announce(r)

\* The manager with general-purpose sub-agents and every kind of LLM response
Spec == MgrInit /\ [][Next]_vars

ApiNext ==
    \/ \E agent_name \in (AgentNames \ {"researcher"}) \cup {NoAgent}, id \in SpawnIds :
          spawn(agent_name, NoModel, id, <<"cli", "direct">>)
    \/ \E id \in 1..NumIds : send_message(id)
    \/ \E id \in 1..NumIds : stop_task(id)
    \/ \E id \in 1..NumIds : dismiss_task(id)
    \/ \E r \in 1..Len(runs) : RunStart(r)
    \/ \E r \in 1..Len(runs), resp \in PlainResponses : LLMReply(r, resp)
    \/ \E r \in 1..Len(runs) : Announce(r)

\* The manager with the agent profiles that are refused or spawned with
\* their own tool list (the accepted profile "researcher" is spawned in
\* ModelSpec), the return values of its calls recorded, and LLM responses
\* without tool calls
ApiSpec == ApiInit /\ [][ApiNext]_vars

\* The responses of a provider that works: a text, or one tool call
WorkingResponses ==
    {resp \in Responses :
        /\ ~resp.used_fallback
        /\ \/ resp.kind = "text" /\ resp.content = "done"
           \/ resp.kind = "calls" /\ Len(resp.calls) = 1 /\ resp.finish = "tool_calls"}

LiveNext ==
    \/ \E id \in SpawnIds : spawn(NoAgent, NoModel, id, <<"cli", "direct">>)
    \/ \E id \in 1..NumIds : send_message(id)
    \/ \E id \in 1..NumIds : stop_task(id)
    \/ \E id \in 1..NumIds : dismiss_task(id)
    \/ \E r \in 1..Len(runs) : RunStart(r)
    \/ \E r \in 1..Len(runs), resp \in Responses : LLMReply(r, resp)
    \/ \E r \in 1..Len(runs) : ToolDone(r)
    \/ \E r \in 1..Len(runs) : Announce(r)

\* The event loop runs every coroutine that is ready, and the LLM calls and
\* tool executions in flight return
RunsProceed ==
    \A r \in 1..MaxRuns :
        /\ WF_vars(r <= Len(runs) /\ RunStart(r))
        /\ WF_vars(r <= Len(runs) /\ \E resp \in Responses : LLMReply(r, resp))
        /\ WF_vars(r <= Len(runs) /\ ToolDone(r))
        /\ WF_vars(r <= Len(runs) /\ Announce(r))

\* The manager with general-purpose sub-agents whose runs are scheduled fairly
LiveSpec == MgrInit /\ [][LiveNext]_vars /\ RunsProceed

\* The values a caller passes as the model argument of spawn
ModelArgs == {NoModel, "provider/explicit-model"}

ModelNext ==
    \/ \E agent_name \in {NoAgent, "writer", "researcher", "bare_agent"},
          model \in ModelArgs, id \in SpawnIds :
          spawn(agent_name, model, id, <<"cli", "direct">>)
    \/ \E id \in 1..NumIds : send_message(id)
    \/ \E id \in 1..NumIds : stop_task(id)
    \/ \E r \in 1..Len(runs) : RunStart(r)
    \/ \E r \in 1..Len(runs), resp \in WorkingResponses : LLMReply(r, resp)
    \/ \E r \in 1..Len(runs) : ToolDone(r)
    \/ \E r \in 1..Len(runs) : Announce(r)

\* The manager with named and general-purpose sub-agents spawned with and
\* without an explicit model
ModelSpec == MgrInit /\ [][ModelNext]_vars

\* The names used in the allowedTools values that are tried: a file tool, a
\* shell tool, the browser and a background tool
ProfileTools == {"file_read", "exec", "browser", "kill"}

\* Texts of an allowedTools line: all, nothing after the colon, a bare name,
\* and bracketed lists of up to two names
AllowedToolsTexts ==
    {<<"all">>, <<>>, <<"[", "]">>}
    \cup {<<a>> : a \in ProfileTools}
    \cup {<<"[", a, "]">> : a \in ProfileTools}
    \cup {<<"[", a, ",", " ", b, "]">> : a, b \in ProfileTools}

\* Texts of an allowedSkills line
AllowedSkillsTexts ==
    {<<"none">>, <<"all">>, <<"[", "]">>, <<"[", "some-skill", "]">>, <<"some-skill">>}

\* The frontmatter of an AGENT.md with or without each of the two keys
Frontmatters ==
    {tools @@ skills :
        tools \in {<<>>} \cup {"allowedTools" :> text : text \in AllowedToolsTexts},
        skills \in {<<>>} \cup {"allowedSkills" :> text : text \in AllowedSkillsTexts}}

\* A manager whose agent directory holds one agent, "probe", with any of the
\* frontmatters
RegInit ==
    /\ MgrFresh
    /\ FbIdle
    /\ LibIdle
    /\ browser_manager \in BOOLEAN
    /\ agent_files \in {[workspace |-> "probe" :> meta, builtin |-> <<>>] : meta \in Frontmatters}
    /\ ret = NoReturn("untraced")

RegNext ==
    \/ \E agent_name \in {NoAgent, "probe"}, id \in SpawnIds :
          spawn(agent_name, NoModel, id, <<"cli", "direct">>)
    \/ \E id \in 1..NumIds : send_message(id)
    \/ \E r \in 1..Len(runs) : RunStart(r)
    \/ \E r \in 1..Len(runs) :
          LLMReply(r, [kind |-> "text", calls |-> <<>>, finish |-> "stop",
                       content |-> "done", used_fallback |-> FALSE])
    \/ \E r \in 1..Len(runs) : Announce(r)

\* The registries built for one profile of every form, at spawn and at resume
RegSpec == RegInit /\ [][RegNext]_vars

ObsNext ==
    \/ \E id \in SpawnIds : spawn(NoAgent, NoModel, id, <<"cli", "direct">>)
    \/ \E id \in 1..NumIds : send_message(id)
    \/ \E id \in 1..NumIds : stop_task(id)
    \/ \E id \in 1..NumIds : dismiss_task(id)
    \/ \E id \in 1..NumIds : get_progress(id)
    \/ list_tasks
    \/ get_running_count
    \/ \E r \in 1..Len(runs) : RunStart(r)
    \/ \E r \in 1..Len(runs), resp \in WorkingResponses : LLMReply(r, resp)
    \/ \E r \in 1..Len(runs) : ToolDone(r)
    \/ \E r \in 1..Len(runs) : Announce(r)

\* The manager with general-purpose sub-agents, a caller that asks for
\* progress and listings, and the return values of the calls recorded
ObsSpec == ApiInit /\ [][ObsNext]_vars

----------------------------------------------------------------------------
(* Claims about the sub-agent manager *)

Tasks == 1..Len(objs)
Runs == 1..Len(runs)
ManagerState == <<objs, _tasks, runs, _async_tasks, bus>>

\* The announcements published for AgentTask t / by run r
AnnouncedFor(t) == {i \in 1..Len(bus) : bus[i].task = t}
AnnouncedBy(r) == {i \in 1..Len(bus) : bus[i].run = r}
RunsOf(t) == {r \in Runs : runs[r].task = t}

\* C1 as stated: exactly one result announcement is published for a task,
\* however many times it is resumed: never more than one, and one once all
\* its runs have ended.
C1_OneAnnouncementPerTask ==
    \A t \in Tasks :
        /\ Cardinality(AnnouncedFor(t)) <= 1
        /\ (\A r \in RunsOf(t) : runs[r].pc = "done") => Cardinality(AnnouncedFor(t)) = 1

\* C1: every run of a sub-agent task (the run started by spawn and the run
\* started by each accepted send_message) publishes exactly one result
\* announcement, when it ends, whichever way it ends; every announcement has
\* channel "system" and chat_id "<origin_channel>:<origin_chat_id>" of the
\* spawn call that created the task.
C1_OneAnnouncementPerRun ==
    /\ \A r \in Runs :
          Cardinality(AnnouncedBy(r)) = (IF runs[r].pc = "done" THEN 1 ELSE 0)
    /\ \A i \in 1..Len(bus) :
          /\ bus[i].channel = "system"
          /\ bus[i].chat_id = objs[bus[i].task].spawn_args[1] \o ":"
                                 \o objs[bus[i].task].spawn_args[2]
          /\ bus[i].task = runs[bus[i].run].task

C1_Witness ==
    \E t \in Tasks :
        /\ Cardinality(AnnouncedFor(t)) = 2
        /\ \A r \in RunsOf(t) : runs[r].pc = "done"
        /\ \E i \in AnnouncedFor(t) : bus[i].status = "stopped"
        /\ \E i \in AnnouncedFor(t) : bus[i].status = "completed"

\* The names a profile's allowed_tools admits, as the registry builder reads them
NamesUnknownTool(definition) ==
    definition.some /\ definition.allowed_tools # StrValue("all")
    /\ AllowedBase(definition) \ SAFE_TOOL_NAMES # {}

\* C5 as stated: a profile whose allowedTools names a tool outside
\* SAFE_TOOL_NAMES, in whatever form it is written, makes spawn return the
\* "unknown tools" error, so no task exists for such a profile.
C5_UnknownToolsRejected ==
    /\ \A t \in Tasks : ~NamesUnknownTool(objs[t].definition)
    /\ (ret.op = "spawn" /\ ret.kind = "unknown_tools") => ret.unknown # {}

\* C6: a spawn that returns an error (agent not found, unknown tools) leaves
\* the task map, the tasks, the background runs and the bus unchanged.
C6_FailedSpawnChangesNothing ==
    (ret.op = "spawn" /\ ret.kind \in {"agent_not_found", "unknown_tools"})
        => ret.same

C6_Witness ==
    /\ ret.op = "spawn" /\ ret.kind = "unknown_tools"
    /\ ret.unknown = {"send_photo", "cron"} /\ ret.same
    /\ Len(objs) = 1 /\ Len(runs) = 1

\* C7 as stated: every name in a sub-agent's tool registry is deliver_result
\* or a member of the admitted set (the profile's allowed_tools, plus
\* file_read when skills are allowed; SAFE_TOOL_NAMES without a list).
C7_RegisteredNamesAdmitted ==
    \A r \in Runs :
        runs[r].tools \subseteq
            Allowed(objs[runs[r].task].definition) \cup {"deliver_result"}

\* C8: send_message on a task whose status is running returns the "still
\* running" error, on an unknown id the "not found" error, and in both cases
\* changes nothing in the manager; it resumes a task only when the task is
\* tracked and not running.
C8_RefusedMessageChangesNothing ==
    ret.op = "send_message" =>
        /\ ret.was = "" => (ret.kind = "not_found" /\ ret.same)
        /\ ret.was = "running" => (ret.kind = "still_running" /\ ret.same)
        /\ ret.kind = "resumed" => ret.was \in {"completed", "stopped", "error"}

C8_Witness ==
    /\ ret.op = "send_message" /\ ret.kind = "still_running" /\ ret.was = "running"
    /\ \E id \in 1..NumIds : _tasks[id] # 0 /\ objs[_tasks[id]].status = "running"
                              /\ runs[_async_tasks[id]].pc = "llm"

\* C9 as stated: dismiss_task removes only tasks that are not running, so
\* every task whose status is running is present in the task map.
C9_RunningTaskIsTracked ==
    \A t \in Tasks : objs[t].status = "running" => _tasks[objs[t].id] = t

\* The ids of the tool calls, in the order of the list
CallIds(calls) == [k \in 1..Len(calls) |-> calls[k].id]

\* C10: when a run makes another LLM call after a response with tool calls,
\* the messages it passes end with the assistant message of that response
\* followed by exactly one tool message per call, in the order of the calls;
\* the tools are executed one at a time in that order.
C10_ToolMessagesFollowCallOrder ==
    \A r \in Runs :
        LET run == runs[r]
            m == run.messages
            n == Len(run.calls)
        IN  /\ (run.pc = "llm" /\ n > 0) =>
                  /\ Len(m) > n
                  /\ m[Len(m) - n] = AssistantMsg(run.calls)
                  /\ \A k \in 1..n : /\ m[Len(m) - n + k].role = "tool"
                                     /\ m[Len(m) - n + k].tool_call_id = run.calls[k].id
                                     /\ m[Len(m) - n + k].name = run.calls[k].name
                  /\ run.finish # "length" => run.executed = CallIds(run.calls)
            /\ run.pc = "tool" =>
                  run.executed = CallIds(SubSeq(run.calls, 1, run.next - 1))

C10_Witness ==
    \E r \in Runs :
        /\ runs[r].pc = "llm"
        /\ runs[r].finish = "tool_calls"
        /\ CallIds(runs[r].calls) = <<"c2", "c1">>
        /\ runs[r].executed = <<"c2", "c1">>

\* The run started last for AgentTask t
LatestRun(t) == CHOOSE r \in RunsOf(t) : \A q \in RunsOf(t) : q <= r

\* The last messages of a run are one "cut off" error per call of its last
\* response, after the assistant message that carries the calls
EndsWithCutOffErrors(run) ==
    LET m == run.messages
        n == Len(run.calls)
    IN  /\ Len(m) > n
        /\ m[Len(m) - n] = AssistantMsg(run.calls)
        /\ \A k \in 1..n : m[Len(m) - n + k]
                               = ToolMsg(run.calls[k], "Error: response was cut off")

\* C11 as stated: after a response with tool calls and finish_reason
\* "length" no call of it is executed, one "cut off" tool message per call
\* is appended, and the run makes another LLM call.
C11_TruncatedRunCallsAgain ==
    \A r \in Runs :
        (runs[r].kind = "calls" /\ runs[r].finish = "length") =>
            /\ runs[r].executed = <<>>
            /\ EndsWithCutOffErrors(runs[r])
            /\ runs[r].pc = "llm"

\* C11: after a response with tool calls and finish_reason "length" no call
\* of it is executed, one "cut off" tool message per call is appended, and
\* the run goes back to the top of its loop: it makes another LLM call,
\* unless the stop flag is set, and then it ends as stopped.
C11_TruncatedRunGoesOn ==
    \A r \in Runs :
        (runs[r].kind = "calls" /\ runs[r].finish = "length") =>
            /\ runs[r].executed = <<>>
            /\ EndsWithCutOffErrors(runs[r])
            /\ \/ runs[r].pc = "llm" /\ ~runs[r].llm_after_stop
               \/ runs[r].pc \in {"announce", "done"} /\ runs[r].announce = "stopped"

C11_Witness ==
    \E r \in Runs :
        /\ runs[r].kind = "calls" /\ runs[r].finish = "length"
        /\ Len(runs[r].calls) = 2
        /\ runs[r].pc = "llm"
        /\ runs[r].replies = 1
        /\ Len(runs[r].messages) = 5

\* C12 as stated: a run that has ended has called on_fallback_batch exactly
\* once, with (True, origin channel, origin chat_id), if one of its LLM calls
\* reported used_fallback, however it ended (completed, error, stopped), and
\* not at all otherwise; a run that has not ended has not called it.
C12_FallbackBatchOncePerRun ==
    \A r \in Runs :
        LET args == objs[runs[r].task].spawn_args
        IN  runs[r].on_fallback_batch =
                IF runs[r].pc = "done" /\ runs[r].batch_used_fallback
                THEN <<<<TRUE, args[1], args[2]>>>>
                ELSE <<>>

\* The LLM call of run r has just failed: it raised, returned no response
\* or returned finish_reason "error"
FailsNow(r) ==
    /\ r \in Runs
    /\ runs[r].pc = "llm"
    /\ runs'[r].replies = runs[r].replies + 1
    /\ runs'[r].kind \in {"raise", "none", "error"}

\* The error text str(e) for the kinds of failure
FailureTexts ==
    [raise |-> "exception in chat_fn", none |-> "LLM call failed",
     error |-> "both providers failed"]

\* C13: when the LLM call of a run fails, the status of its task becomes
\* error with the error text recorded, and the run publishes an announcement
\* saying that the task failed; the step changes no other task and no other
\* run, so the other runs go on from where they were.
C13_FailureTouchesOnlyItsTask ==
    /\ [](\A t \in Tasks :
            LET r == LatestRun(t)
            IN  runs[r].kind \in {"raise", "none", "error"} =>
                  /\ objs[t].status = "error"
                  /\ objs[t].error = FailureTexts[runs[r].kind]
                  /\ runs[r].pc \in {"announce", "done"}
                  /\ runs[r].pc = "done" =>
                        \E i \in AnnouncedBy(r) : /\ bus[i].status_text = "failed"
                                                  /\ bus[i].result_content = objs[t].error)
    /\ [][\A r \in 1..MaxRuns :
            FailsNow(r) =>
              /\ \A t \in Tasks \ {runs[r].task} : objs'[t] = objs[t]
              /\ \A q \in Runs \ {r} : runs'[q] = runs[q]
              /\ _tasks' = _tasks /\ bus' = bus]_vars

C13_Witness ==
    /\ Len(objs) = 2 /\ Len(runs) = 2
    /\ runs[1].task = 1 /\ runs[1].kind = "error" /\ runs[1].pc = "done"
    /\ objs[1].status = "error" /\ objs[1].error = "both providers failed"
    /\ runs[2].task = 2 /\ runs[2].pc = "llm" /\ objs[2].status = "running"
    /\ Len(bus) = 1

\* The calls made from outside the runs that C14 names
OutsideCalls == {"send_message", "stop_task", "dismiss_task", "get_progress", "list_tasks"}

\* C14 as stated: no manager operation called from outside the run
\* (send_message, stop_task, dismiss_task, get_progress, list_tasks) changes
\* the status, messages, result, error or stop flag of any AgentTask.
C14_OnlyTheRunMutates ==
    ret.op \in OutsideCalls => ret.touched = {}

\* C14: of the manager operations called from outside the run, dismiss_task,
\* get_progress and list_tasks change no field of any AgentTask; stop_task
\* changes only the stop flag, of the running task it names; send_message
\* changes fields only of the task it names and only when it resumes it,
\* which it does only when that task is not running.  So the fields of a
\* running task, its stop flag apart, are changed by its run alone.
C14_OutsideCallsTouchOnlyIdleTasks ==
    /\ ret.op \in {"dismiss_task", "get_progress", "list_tasks"} => ret.touched = {}
    /\ ret.op = "stop_task" =>
          /\ ret.touched \subseteq {<<ret.target, "stop_event">>}
          /\ ret.touched # {} => ret.kind = "stop_sent"
    /\ ret.op = "send_message" =>
          /\ \A p \in ret.touched : p[1] = ret.target
          /\ ret.touched # {} =>
                ret.kind = "resumed" /\ ret.was \in {"completed", "stopped", "error"}

C14_Witness ==
    /\ ret.op = "send_message" /\ ret.kind = "resumed" /\ ret.was = "stopped"
    /\ ret.target # 0
    /\ ret.touched = {<<ret.target, f>> : f \in {"status", "messages", "result", "stop_event"}}

\* C15 as stated: get_progress, list_tasks and get_running_count change
\* nothing in the manager, and the dict returned by get_progress is a
\* snapshot: its "messages" entry keeps showing the messages the task had
\* when the dict was returned.
C15_ProgressIsASnapshot ==
    /\ ret.op \in {"get_progress", "list_tasks", "get_running_count"} => ret.same
    /\ progress.held =>
          /\ MessagesSeenIn(progress) = progress.messages
          /\ progress.message_count = Len(MessagesSeenIn(progress))

\* The LLM call in flight of a run of task t does not return
NeverAnswered(t) == \E r \in RunsOf(t) : runs[r].pc = "llm" /\ ~MayReply

\* C16: once stop_task has set the stop flag of a running task, and provided
\* the LLM call or tool execution in flight returns, the task leaves the
\* running status (to stopped, completed or error); and no run makes an LLM
\* call while the stop flag of its task is set.
C16_StopEndsTheRun ==
    /\ \A t \in 1..MaxTasks :
          (t <= Len(objs) /\ objs[t].status = "running" /\ objs[t].stop_event)
              ~> (t <= Len(objs) /\ (objs[t].status # "running" \/ NeverAnswered(t)))
    /\ [](\A r \in Runs : ~runs[r].llm_after_stop)

C16_Witness ==
    \E r \in Runs :
        /\ runs[r].replies = 1 /\ runs[r].kind = "calls"
        /\ runs[r].finish = "tool_calls" /\ Len(runs[r].executed) = 2
        /\ runs[r].announce = "stopped"
        /\ objs[runs[r].task].status = "stopped"
        /\ objs[runs[r].task].result = "Task was stopped by user."

\* The model key of the AGENT.md of a named agent, "default" without the key
ProfileModel(agent_name) ==
    LET meta == IF agent_name \in DOMAIN agent_files.workspace
                THEN agent_files.workspace[agent_name]
                ELSE agent_files.builtin[agent_name]
    IN  IF "model" \in DOMAIN meta THEN Join(meta.model) ELSE "default"

\* The model that the precedence rule gives to AgentTask t
ModelByPrecedence(t) ==
    IF objs[t].model_arg # NoModel THEN objs[t].model_arg
    ELSE IF objs[t].agent_name # NoAgent /\ ProfileModel(objs[t].agent_name) # "default"
    THEN ProfileModel(objs[t].agent_name)
    ELSE SelfModel

\* C17: the model of a sub-agent is the explicit model argument of spawn if
\* given, otherwise the profile's model if a profile is used and its model
\* is not "default", otherwise the manager's default model; every LLM call
\* of the task, in the run started by spawn and in the runs resumed by
\* send_message, is made with that model.
C17_ModelByPrecedenceInEveryCall ==
    /\ \A t \in Tasks : objs[t].resolved_model = ModelByPrecedence(t)
    /\ \A r \in Runs :
          /\ runs[r].llm_models \subseteq {ModelByPrecedence(runs[r].task)}
          /\ runs[r].pc \in {"llm", "tool"} => runs[r].llm_models # {}

C17_Witness ==
    \E t \in Tasks, r1, r2 \in Runs :
        /\ objs[t].agent_name = "researcher"
        /\ objs[t].model_arg = "provider/explicit-model"
        /\ runs[r1].task = t /\ runs[r2].task = t
        /\ ~runs[r1].resume /\ runs[r2].resume
        /\ runs[r1].llm_models = {"provider/explicit-model"}
        /\ runs[r2].llm_models = {"provider/explicit-model"}

\* A run whose last LLM response had no tool calls has ended: its task is
\* completed with the given result, the run makes no further LLM call, and
\* its announcement says "completed successfully" and carries the result
EndedByText(t, r, result) ==
    /\ objs[t].status = "completed"
    /\ objs[t].result = result
    /\ runs[r].pc \in {"announce", "done"}
    /\ runs[r].pc = "done" =>
          \E i \in AnnouncedBy(r) : /\ bus[i].status_text = "completed successfully"
                                    /\ bus[i].result_content = result

\* C18 as stated: a response with no tool calls ends the run with status
\* completed and the response content as the result, whatever the content.
C18_TextReplyIsTheResult ==
    \A t \in Tasks :
        LET r == LatestRun(t)
        IN  runs[r].kind = "text" => EndedByText(t, r, runs[r].content)

\* C18: a response with no tool calls ends the run as an implicit
\* deliver_result: status completed, a "completed successfully"
\* announcement, no further LLM call in that run, and as result the response
\* content, or "Task completed (no output)." when the content is empty.
C18_TextReplyOrPlaceholderIsTheResult ==
    \A t \in Tasks :
        LET r == LatestRun(t)
        IN  runs[r].kind = "text" =>
              EndedByText(t, r, IF runs[r].content = ""
                                THEN "Task completed (no output)."
                                ELSE runs[r].content)

C18_Witness ==
    \E t \in Tasks :
        LET r == LatestRun(t)
        IN  /\ runs[r].kind = "text" /\ runs[r].content = ""
            /\ runs[r].pc = "done" /\ runs[r].replies = 1
            /\ objs[t].status = "completed"
            /\ objs[t].result = "Task completed (no output)."

\* C19: the registry of every run, built for a profile of any form or for
\* no profile, at spawn or at resume, contains deliver_result; for a profile
\* with an empty allowed_tools list and allowed_skills "none" it contains
\* nothing else.
C19_DeliverResultAlwaysRegistered ==
    \A r \in Runs :
        LET definition == objs[runs[r].task].definition
        IN  /\ "deliver_result" \in runs[r].tools
            /\ (/\ definition.some
                /\ definition.allowed_tools = ListValue(<<>>)
                /\ definition.allowed_skills = StrValue("none"))
                  => runs[r].tools = {"deliver_result"}

C19_Witness ==
    \E r1, r2 \in Runs :
        /\ r1 # r2
        /\ runs[r1].task = runs[r2].task /\ runs[r2].resume
        /\ objs[runs[r1].task].agent_name = "probe"
        /\ agent_files.workspace["probe"] = [allowedTools |-> <<"[", "]">>, allowedSkills |-> <<"none">>]
        /\ runs[r1].tools = {"deliver_result"}
        /\ runs[r2].tools = {"deliver_result"}

\* The profile's allowed_tools admits file_read by itself
AdmitsFileRead(definition) ==
    \/ definition.allowed_tools = StrValue("all")
    \/ definition.allowed_tools.list /\ "file_read" \in Range(definition.allowed_tools.items)
    \/ ~definition.allowed_tools.list /\ definition.allowed_tools.str = "file_read"

\* C20: in the registry of a named agent file_read is registered whenever
\* allowed_skills is not "none", also when allowed_tools does not list it,
\* and is absent when allowed_skills is "none" and allowed_tools does not
\* list it.
C20_FileReadFollowsSkills ==
    \A r \in Runs :
        LET definition == objs[runs[r].task].definition
        IN  definition.some =>
              /\ definition.allowed_skills # StrValue("none")
                    => "file_read" \in runs[r].tools
              /\ (definition.allowed_skills = StrValue("none") /\ ~AdmitsFileRead(definition))
                    => "file_read" \notin runs[r].tools

C20_Witness ==
    \E r \in Runs :
        /\ objs[runs[r].task].agent_name = "probe"
        /\ agent_files.workspace["probe"] = [allowedTools |-> <<"[", "exec", "]">>,
                                   allowedSkills |-> <<"[", "some-skill", "]">>]
        /\ runs[r].tools = {"exec", "file_read", "deliver_result"}

----------------------------------------------------------------------------
(* Persistence of FallbackState: fallback.py:19-42                         *)
(*                                                                         *)
(* The text of the state file is kept as the sequence of its JSON tokens:  *)
(* "{", "}", "[", "]", ":", ",", " ", the digits, true, false, null and    *)
(* quoted strings.                                                         *)

Digits == <<"0", "1", "2", "3", "4", "5", "6", "7", "8", "9">>

\* the decimal digits json.dumps writes for a non-negative int
RECURSIVE IntTokens(_)
IntTokens(n) ==
    IF n < 10 THEN <<Digits[n + 1]>>
    ELSE IntTokens(n \div 10) \o <<Digits[(n % 10) + 1]>>

\* json.dumps of a bool
BoolToken(b) == IF b THEN "true" ELSE "false"

\* quoted strings that occur in the files of the model
KeyFailures == "\"consecutive_failures\""
KeyMode     == "\"fallback_mode\""
StringTokens == {KeyFailures, KeyMode, "\"x\""}

\* fallback.py:26-29  json.dumps({"consecutive_failures": ..., "fallback_mode": ...})
DumpedState_no_mode(failures, mode) ==
    <<"{", KeyFailures, ":", " ">> \o IntTokens(failures) \o <<"}">>
DumpedState(failures, mode) ==
    <<"{", KeyFailures, ":", " ">> \o IntTokens(failures)
        \o <<",", " ", KeyMode, ":", " ", BoolToken(mode), "}">>

\* Values that json.loads returns
JsonError == [kind |-> "JSONDecodeError"]
JInt(n)   == [kind |-> "int", int |-> n]
JBool(b)  == [kind |-> "bool", bool |-> b]
JStr(t)   == [kind |-> "str", str |-> t]
JNull     == [kind |-> "null"]

DigitValue(t) == CHOOSE d \in 0..9 : Digits[d + 1] = t

RECURSIVE DigitsValue(_)
DigitsValue(toks) ==
    IF Len(toks) = 1 THEN DigitValue(toks[1])
    ELSE 10 * DigitsValue(SubSeq(toks, 1, Len(toks) - 1)) + DigitValue(toks[Len(toks)])

\* a JSON number without sign, fraction or exponent: no leading zero
IsNumber(toks) ==
    /\ toks # <<>>
    /\ \A i \in 1..Len(toks) : \E d \in 1..10 : Digits[d] = toks[i]
    /\ Len(toks) > 1 => toks[1] # "0"

\* json.loads of the text of one scalar
ParseScalar(toks) ==
    IF toks = <<"true">> THEN JBool(TRUE)
    ELSE IF toks = <<"false">> THEN JBool(FALSE)
    ELSE IF toks = <<"null">> THEN JNull
    ELSE IF Len(toks) = 1 /\ toks[1] \in StringTokens THEN JStr(toks[1])
    ELSE IF IsNumber(toks) THEN JInt(DigitsValue(toks))
    ELSE JsonError

\* one `key: value` of an object
ParseMember(toks) ==
    IF toks = <<>> \/ Head(toks) \notin StringTokens THEN JsonError
    ELSE LET rest == LStrip(Tail(toks))
         IN  IF rest = <<>> \/ Head(rest) # ":" THEN JsonError
             ELSE LET v == ParseScalar(Strip(Tail(rest)))
                  IN  IF v = JsonError THEN JsonError
                      ELSE [kind |-> "member", key |-> Head(toks), value |-> v]

\* json.loads of a text: an object or an array of scalars, or a scalar;
\* JsonError stands for the JSONDecodeError it raises
JsonLoads(text) ==
    LET t == Strip(text)
        pieces == IF Strip(Inner(t)) = <<>> THEN <<>> ELSE Split(Inner(t))
    IN  IF Len(t) >= 2 /\ t[1] = "{" /\ t[Len(t)] = "}"
        THEN LET members == [i \in 1..Len(pieces) |-> ParseMember(Strip(pieces[i]))]
             IN  IF \E i \in 1..Len(members) : members[i] = JsonError
                 THEN JsonError
                 ELSE [kind |-> "object", members |-> members]
        ELSE IF Bracketed(t)
        THEN LET items == [i \in 1..Len(pieces) |-> ParseScalar(Strip(pieces[i]))]
             IN  IF \E i \in 1..Len(items) : items[i] = JsonError
                 THEN JsonError
                 ELSE [kind |-> "array", items |-> items]
        ELSE ParseScalar(t)

\* dict.get(key, default) on a parsed object: the last member of that key
RECURSIVE DictGet(_, _, _)
DictGet(members, key, default) ==
    IF members = <<>> THEN default
    ELSE IF members[Len(members)].key = key THEN members[Len(members)].value
    ELSE DictGet(SubSeq(members, 1, Len(members) - 1), key, default)

\* cls(): the default state
DefaultState ==
    [raised |-> "", consecutive_failures |-> JInt(0), fallback_mode |-> JBool(FALSE)]

\* fallback.py:30-42: the state returned, or the exception that leaves load
\* (only JSONDecodeError and KeyError are caught; .get on a value that is
\* not a dict raises AttributeError)
LoadFrom(file) ==
    IF file = NoFile THEN DefaultState
    ELSE LET data == JsonLoads(file)
         IN  IF data = JsonError THEN DefaultState
             ELSE IF data.kind # "object" THEN [raised |-> "AttributeError"]
             ELSE [raised |-> "",
                   consecutive_failures |-> DictGet(data.members, KeyFailures, JInt(0)),
                   fallback_mode |-> DictGet(data.members, KeyMode, JBool(FALSE))]

\* fallback.py:21  `self.consecutive_failures == 0 and not self.fallback_mode`
IsDefault(failures, mode) == failures = 0 /\ ~mode

\* fallback.py:19-28
save ==
    /\ state_file' = IF IsDefault(consecutive_failures, fallback_mode)
                     THEN NoFile
                     ELSE DumpedState(consecutive_failures, fallback_mode)
    /\ fb_op' = "save"
    /\ fb_ret' = FALSE
    /\ fb_prev' = <<consecutive_failures, fallback_mode>>
    /\ UNCHANGED <<consecutive_failures, fallback_mode, last_primary_probe,
                   threshold, now, streak, loaded>>
    /\ UNCHANGED <<mgrOwn, libVars>>

\* fallback.py:30-42
load ==
    /\ loaded' = LoadFrom(state_file)
    /\ fb_op' = "load"
    /\ fb_ret' = FALSE
    /\ fb_prev' = <<consecutive_failures, fallback_mode>>
    /\ UNCHANGED <<consecutive_failures, fallback_mode, last_primary_probe,
                   threshold, now, streak, state_file>>
    /\ UNCHANGED <<mgrOwn, libVars>>

\* What the state file may hold when the process starts: nothing, a saved
\* state, or a text that save never wrote
FileContents ==
    {NoFile,
     DumpedState(2, FALSE),
     DumpedState(3, TRUE),
     <<"{", "}">>,
     <<"{", KeyMode, ":", "true", "}">>,
     <<"{", KeyFailures, ":", " ", "\"x\"", "}">>,
     <<"{", KeyFailures, ":">>,
     <<>>,
     <<"[", "]">>,
     <<"[", "1", ",", " ", "true", "]">>,
     <<"null">>,
     <<"7">>}

\* a fresh FallbackState in a process that starts with any of these files
FileInit ==
    /\ MgrFresh
    /\ browser_manager = FALSE
    /\ agent_files = [workspace |-> <<>>, builtin |-> <<>>]
    /\ ret = NoReturn("untraced")
    /\ LoaderIdle
    /\ ProviderIdle
    /\ CronIdle
    /\ BrowserIdle
    /\ CompactIdle
    /\ WebIdle
    /\ consecutive_failures = 0
    /\ fallback_mode = FALSE
    /\ now = 0
    /\ last_primary_probe = now
    /\ threshold \in 1..MaxThreshold
    /\ fb_op = "init"
    /\ fb_ret = FALSE
    /\ fb_prev = <<0, FALSE>>
    /\ streak = 0
    /\ state_file \in FileContents
    /\ loaded = [raised |-> "init"]

FileNext ==
    \/ record_primary_failure
    \/ record_primary_success
    \/ save
    \/ load

FileSpec == FileInit /\ [][FileNext]_vars

----------------------------------------------------------------------------
(* Claims about the persistence of FallbackState *)

\* C22: after save() the state file exists if and only if the state is
\* non-default (consecutive_failures > 0 or fallback_mode true), and load()
\* after save() returns a state with the same consecutive_failures and
\* fallback_mode; saving a default state removes any existing file, so that
\* a later load() returns the default state.
C22_SaveThenLoadGivesTheState ==
    fb_op = "save" =>
        /\ (state_file # NoFile) <=> (consecutive_failures > 0 \/ fallback_mode)
        /\ LoadFrom(state_file) =
              [raised |-> "",
               consecutive_failures |-> JInt(consecutive_failures),
               fallback_mode |-> JBool(fallback_mode)]
        /\ (consecutive_failures = 0 /\ ~fallback_mode) =>
              /\ state_file = NoFile
              /\ LoadFrom(state_file) = DefaultState

C22_Witness ==
    /\ fb_op = "save" /\ fallback_mode /\ consecutive_failures >= 2
    /\ state_file # NoFile
    /\ LoadFrom(state_file).fallback_mode = JBool(TRUE)

\* The text is an object with the two fields, an int and a bool
Interpretable(file) ==
    LET data == JsonLoads(file)
    IN  /\ data # JsonError
        /\ data.kind = "object"
        /\ DictGet(data.members, KeyFailures, JNull).kind = "int"
        /\ DictGet(data.members, KeyMode, JNull).kind = "bool"

\* C23: FallbackState.load never fails: when the state file is absent, or
\* its content cannot be interpreted as the two-field object (invalid JSON,
\* or valid JSON that is not an object with those fields), it returns the
\* default state with consecutive_failures 0 and fallback_mode false.
C23_LoadNeverFails ==
    fb_op = "load" =>
        /\ loaded.raised = ""
        /\ (state_file = NoFile \/ ~Interpretable(state_file)) => loaded = DefaultState

----------------------------------------------------------------------------
(* The agents loader on its own *)

\* The agent directories of the loader specification: each of two names
\* with or without an AGENT.md in each directory, with or without a
\* description in its frontmatter
LoaderNames == {"probe", "researcher"}

LoaderMetas ==
    {<<>>, "description" :> <<"custom">>, "description" :> <<"stock">>}

AgentDirs ==
    UNION {[names -> LoaderMetas] : names \in SUBSET LoaderNames}

\* AgentsLoader(workspace, builtin_agents_dir) over any two directories
LoaderInit ==
    /\ MgrFresh
    /\ FbIdle
    /\ browser_manager = FALSE
    /\ ret = NoReturn("untraced")
    /\ FileIdle
    /\ ProviderIdle
    /\ CronIdle
    /\ BrowserIdle
    /\ CompactIdle
    /\ WebIdle
    /\ agent_files \in [workspace : AgentDirs, builtin : AgentDirs]
    /\ agents_ret = [op |-> "init"]

\* a call of list_agents()
CallListAgents ==
    /\ agents_ret' = [op |-> "list_agents", name |-> "", value |-> list_agents]
    /\ UNCHANGED notLoader

\* a call of load_agent(name)
CallLoadAgent(name) ==
    /\ agents_ret' = [op |-> "load_agent", name |-> name, value |-> load_agent(name)]
    /\ UNCHANGED notLoader

LoaderNext ==
    \/ CallListAgents
    \/ \E name \in LoaderNames \cup {"ghost"} : CallLoadAgent(name)

LoaderSpec == LoaderInit /\ [][LoaderNext]_vars

----------------------------------------------------------------------------
(* Claims about the agents loader *)

\* C21: workspace agent definitions override built-in ones of the same name:
\* list_agents returns each agent name at most once and reports source
\* "workspace" whenever a workspace AGENT.md of that name exists, and
\* load_agent(name) returns the workspace definition in exactly those cases,
\* the built-in one when only it exists, and None when neither exists.
C21_WorkspaceOverridesBuiltin ==
    LET ws == agent_files.workspace
        bi == agent_files.builtin
        v  == agents_ret.value
    IN  /\ agents_ret.op = "list_agents" =>
              /\ \A i, j \in 1..Len(v) : v[i].name = v[j].name => i = j
              /\ \A n \in DOMAIN ws :
                    \E i \in 1..Len(v) :
                        /\ v[i].name = n /\ v[i].source = "workspace"
                        /\ v[i].description = Join(MetaGet(ws[n], "description", <<n>>))
              /\ \A i \in 1..Len(v) :
                    v[i].source = "workspace" => v[i].name \in DOMAIN ws
        /\ agents_ret.op = "load_agent" =>
              LET n == agents_ret.name
              IN  IF n \in DOMAIN ws
                  THEN /\ v.some /\ v.path = <<"workspace", n>>
                       /\ v.description = Join(MetaGet(ws[n], "description", <<>>))
                  ELSE IF n \in DOMAIN bi
                  THEN /\ v.some /\ v.path = <<"builtin", n>>
                       /\ v.description = Join(MetaGet(bi[n], "description", <<>>))
                  ELSE ~v.some

C21_Witness ==
    /\ agents_ret.op = "load_agent" /\ agents_ret.name = "probe"
    /\ "probe" \in DOMAIN agent_files.workspace
    /\ "probe" \in DOMAIN agent_files.builtin
    /\ agent_files.workspace["probe"] # agent_files.builtin["probe"]
    /\ agents_ret.value.description = "custom"
    /\ agents_ret.value.path = <<"workspace", "probe">>

----------------------------------------------------------------------------
(* LiteLLMProvider: ragnarbot/providers/litellm_provider.py                *)
(*                                                                         *)
(* A message is a dict with a role, a content and, for a tool message, a   *)
(* tool_call_id; cache_control tells whether the dict has that key.  A     *)
(* content is a str or a list of blocks; a block is a dict of type "text"  *)
(* or "image_url", with or without the keys cache_control and _image_path. *)

MaxMsgs == 3            \* longest message list passed to the provider

StrContent(text)    == [str |-> TRUE, text |-> text, blocks |-> <<>>]
ListContent(blocks) == [str |-> FALSE, text |-> "", blocks |-> blocks]

TextBlock(text) ==
    [type |-> "text", text |-> text, image |-> "",
     cache_control |-> FALSE, _image_path |-> FALSE]
ImageBlock(image, internal) ==
    [type |-> "image_url", text |-> "", image |-> image,
     cache_control |-> FALSE, _image_path |-> internal]

Message(role, content, tool_call_id) ==
    [role |-> role, content |-> content, tool_call_id |-> tool_call_id,
     cache_control |-> FALSE]

\* The messages that the lists of the model are made of
MessageKinds ==
    {Message("system", StrContent("You are helpful."), ""),
     Message("system", ListContent(<<TextBlock("rules"), TextBlock("memory")>>), ""),
     Message("system", ListContent(<<>>), ""),
     Message("user", StrContent("Hi"), ""),
     Message("user", ListContent(<<>>), ""),
     Message("user", ListContent(<<ImageBlock("photo", TRUE), TextBlock("look")>>), ""),
     Message("assistant", StrContent("ok"), ""),
     Message("tool", StrContent("result"), "1"),
     Message("tool", ListContent(<<ImageBlock("shot-a", TRUE), TextBlock("page"),
                                   ImageBlock("shot-b", FALSE)>>), "2"),
     Message("tool", ListContent(<<ImageBlock("shot-c", FALSE)>>), "3"),
     Message("tool", ListContent(<<TextBlock("x"), TextBlock("y")>>), "4")}

MessageLists == UNION {[1..n -> MessageKinds] : n \in 0..MaxMsgs}

\* sep.join(parts)
RECURSIVE JoinWith(_, _)
JoinWith(sep, parts) ==
    IF parts = <<>> THEN ""
    ELSE IF Len(parts) = 1 THEN parts[1]
    ELSE parts[1] \o sep \o JoinWith(sep, Tail(parts))

\* the concatenation of a list of lists
RECURSIVE Concat(_)
Concat(lists) == IF lists = <<>> THEN <<>> ELSE Head(lists) \o Concat(Tail(lists))

IsImage(block) == block.type = "image_url"
IsText(block)  == block.type = "text"

\* litellm_provider.py:208-213: the image blocks of a content
ImagesOf(content) ==
    IF content.str THEN <<>> ELSE SelectSeq(content.blocks, IsImage)

\* litellm_provider.py:214-222: a tool message with list content becomes
\* text-only
Downgraded(tool_msg) ==
    IF tool_msg.content.str THEN tool_msg
    ELSE LET texts == SelectSeq(tool_msg.content.blocks, IsText)
             text_parts == [k \in 1..Len(texts) |-> texts[k].text]
         IN  [tool_msg EXCEPT !.content =
                 StrContent(IF text_parts # <<>> THEN JoinWith(" ", text_parts)
                            ELSE "[image]")]

\* litellm_provider.py:229-237: the synthetic user message of a tool block
Synthetic(block_images) ==
    LET count == Len(block_images)
        label == IF count = 1 THEN "image" ELSE Join(IntTokens(count)) \o " images"
    IN  Message("user",
                ListContent(block_images
                            \o <<TextBlock("[" \o label \o " from tool result above]")>>),
                "")

\* litellm_provider.py:204  the index after the consecutive tool messages
\* that start at i
ToolBlockEnd_one(messages, i) == i + 1
RECURSIVE ToolBlockEnd(_, _)
ToolBlockEnd(messages, i) ==
    IF i <= Len(messages) /\ messages[i].role = "tool"
    THEN ToolBlockEnd(messages, i + 1) ELSE i

\* litellm_provider.py:190-239, from index i on
RECURSIVE AdaptFrom(_, _)
AdaptFrom(messages, i) ==
    IF i > Len(messages) THEN <<>>
    ELSE IF messages[i].role # "tool"
    THEN <<messages[i]>> \o AdaptFrom(messages, i + 1)
    ELSE LET j == ToolBlockEnd(messages, i)
             block_images == Concat([k \in 1..(j - i) |->
                                        ImagesOf(messages[i + k - 1].content)])
         IN  [k \in 1..(j - i) |-> Downgraded(messages[i + k - 1])]
             \o (IF block_images # <<>> THEN <<Synthetic(block_images)>> ELSE <<>>)
             \o AdaptFrom(messages, j)

\* litellm_provider.py:182-241
_adapt_tool_images(messages) == AdaptFrom(messages, 1)

\* litellm_provider.py:252-264, 283-294: the content with the marker on a
\* new text block for a str, on the last block of a list that has one
Marked(content) ==
    IF content.str
    THEN ListContent(<<[TextBlock(content.text) EXCEPT !.cache_control = TRUE]>>)
    ELSE IF content.blocks # <<>>
    THEN ListContent([content.blocks EXCEPT ![Len(content.blocks)].cache_control = TRUE])
    ELSE content

WithRole(messages, role) == {i \in 1..Len(messages) : messages[i].role = role}

Min(S) == CHOOSE i \in S : \A j \in S : i <= j
Max(S) == CHOOSE i \in S : \A j \in S : i >= j

\* litellm_provider.py:251-265  the first message of role system, 0 without
FirstSystem(messages) ==
    IF WithRole(messages, "system") = {} THEN 0 ELSE Min(WithRole(messages, "system"))

\* litellm_provider.py:271-275  the last message of role tool, 0 without
LastTool_first(messages) ==
    IF WithRole(messages, "tool") = {} THEN 0 ELSE Min(WithRole(messages, "tool"))
LastTool(messages) ==
    IF WithRole(messages, "tool") = {} THEN 0 ELSE Max(WithRole(messages, "tool"))

\* litellm_provider.py:278-282  the second user message from the end, 0 without
SecondToLastUser(messages) ==
    LET users == WithRole(messages, "user")
    IN  IF Cardinality(users) < 2 THEN 0 ELSE Max(users \ {Max(users)})

\* litellm_provider.py:245-300: the list returned
_inject_cache_control(messages) ==
    LET sys  == FirstSystem(messages)
        bp1  == IF sys = 0 THEN messages
                ELSE [messages EXCEPT ![sys].content = Marked(@)]
        tool == LastTool(bp1)
        user == SecondToLastUser(bp1)
    IN  IF tool # 0 THEN [bp1 EXCEPT ![tool].cache_control = TRUE]
        ELSE IF user # 0 THEN [bp1 EXCEPT ![user].content = Marked(@)]
        ELSE bp1

\* litellm_provider.py:248, 259, 289 (m.copy(), b.copy(), new lists) and
\* 146, 177, 218 ({**msg, ...}): the provider writes to copies, so the list
\* and the dicts of the caller are after the call what they were before
CallerSees_written(messages, written) == written
CallerSees(messages, written) == messages

\* litellm_provider.py:128-146
_sanitize_messages(messages) ==
    [i \in 1..Len(messages) |->
        IF messages[i].content.str THEN messages[i]
        ELSE [messages[i] EXCEPT !.content.blocks =
                 [k \in 1..Len(@) |-> [@[k] EXCEPT !._image_path = FALSE]]]]

\* litellm_provider.py:148-179 (the dash of the placeholder is U+2014 there)
_strip_images(messages) ==
    [i \in 1..Len(messages) |->
        LET content   == messages[i].content
            non_image == SelectSeq(content.blocks, LAMBDA b : ~IsImage(b))
            n_removed == Len(content.blocks) - Len(non_image)
            label     == IF n_removed = 1 THEN "image"
                         ELSE Join(IntTokens(n_removed)) \o " images"
        IN  IF content.str \/ n_removed = 0 THEN messages[i]
            ELSE [messages[i] EXCEPT !.content = ListContent(
                     Append(non_image,
                            TextBlock("[" \o label
                                      \o " omitted - current model does not support vision]")))]]

\* The models of the calls: what chat() finds out about a model id
\* (litellm_provider.py:70-78 and config/providers.py:139-153)
Models ==
    {[id |-> "anthropic/claude-sonnet-4-5", sent |-> "anthropic/claude-sonnet-4-5",
      openrouter |-> FALSE, caches |-> TRUE, vision |-> TRUE],
     [id |-> "gemini-3-flash-preview", sent |-> "gemini/gemini-3-flash-preview",
      openrouter |-> FALSE, caches |-> TRUE, vision |-> TRUE],
     [id |-> "openai/gpt-5.2", sent |-> "openai/gpt-5.2",
      openrouter |-> FALSE, caches |-> FALSE, vision |-> TRUE],
     [id |-> "openrouter/minimax/minimax-m2.5", sent |-> "openrouter/minimax/minimax-m2.5",
      openrouter |-> TRUE, caches |-> FALSE, vision |-> FALSE],
     [id |-> "openrouter/google/gemini-3-flash-preview",
      sent |-> "openrouter/google/gemini-3-flash-preview",
      openrouter |-> TRUE, caches |-> FALSE, vision |-> TRUE]}

\* litellm_provider.py:76-117: kwargs["messages"] of the call of acompletion
Prepared(messages, model) ==
    LET injected  == IF ~model.openrouter /\ model.caches
                     THEN _inject_cache_control(messages) ELSE messages
        sanitized == _sanitize_messages(injected)
        stripped  == IF ~model.vision THEN _strip_images(sanitized) ELSE sanitized
    IN  IF model.openrouter THEN _adapt_tool_images(stripped) ELSE stripped

\* What litellm.acompletion does on its successive calls: it returns a
\* completion, raises the RateLimitError of Gemini's free tier
\* (TotalCachedContentStorageTokensPerModelFreeTier) or raises another error
Outcomes ==
    {<<"completion">>, <<"Connection failed">>,
     <<"CachedContentFreeTier", "completion">>,
     <<"CachedContentFreeTier", "Connection failed">>,
     <<"CachedContentFreeTier", "CachedContentFreeTier">>}

\* litellm_provider.py:119-127: _parse_response of the completion, or the
\* exception as an error response
ChatResponse(outcome) ==
    IF outcome = "completion"
    THEN [content |-> "Hello!", finish_reason |-> "stop"]
    ELSE [content |-> "Error calling LLM: " \o outcome, finish_reason |-> "error"]

\* litellm_provider.py:46-127: one call of acompletion; its result or its
\* exception is what chat returns
chat(model, outcomes) ==
    /\ acompletion_calls' =
          <<[model |-> model.sent, messages |-> Prepared(chat_messages, model)]>>
    /\ provider_ret' = [op |-> "chat", model |-> model.id, outcomes |-> outcomes,
                        messages |-> chat_messages,
                        value |-> ChatResponse(outcomes[1])]
    /\ chat_messages' = CallerSees(chat_messages, Prepared(chat_messages, model))
    /\ UNCHANGED notProvider

\* a call of LiteLLMProvider._adapt_tool_images(messages)
CallAdaptToolImages ==
    /\ provider_ret' = [op |-> "_adapt_tool_images", messages |-> chat_messages,
                        value |-> _adapt_tool_images(chat_messages)]
    /\ chat_messages' = CallerSees(chat_messages, _adapt_tool_images(chat_messages))
    /\ UNCHANGED <<notProvider, acompletion_calls>>

\* a call of LiteLLMProvider._inject_cache_control(messages)
CallInjectCacheControl ==
    /\ provider_ret' = [op |-> "_inject_cache_control", messages |-> chat_messages,
                        value |-> _inject_cache_control(chat_messages)]
    /\ chat_messages' = CallerSees(chat_messages, _inject_cache_control(chat_messages))
    /\ UNCHANGED <<notProvider, acompletion_calls>>

\* A caller that holds any message list
ProviderInit ==
    /\ MgrFresh
    /\ FbIdle
    /\ browser_manager = FALSE
    /\ agent_files = [workspace |-> <<>>, builtin |-> <<>>]
    /\ ret = NoReturn("untraced")
    /\ FileIdle
    /\ LoaderIdle
    /\ CronIdle
    /\ BrowserIdle
    /\ CompactIdle
    /\ WebIdle
    /\ chat_messages \in MessageLists
    /\ acompletion_calls = <<>>
    /\ provider_ret = [op |-> "init"]

ProviderNext ==
    \/ \E model \in Models, outcomes \in Outcomes : chat(model, outcomes)
    \/ CallAdaptToolImages
    \/ CallInjectCacheControl

ProviderSpec == ProviderInit /\ [][ProviderNext]_vars

----------------------------------------------------------------------------
(* Claims about LiteLLMProvider *)

\* The dict of a message or one of its blocks has the key cache_control
HasMarker(msg) ==
    \/ msg.cache_control
    \/ \E k \in 1..Len(msg.content.blocks) : msg.content.blocks[k].cache_control

\* C24: when a call through the LiteLLM provider fails with the Gemini
\* free-tier cached-content storage rate-limit error, the provider retries
\* exactly once with every cache_control marker removed from the messages;
\* any other error is returned as a response with finish_reason "error"
\* after a single attempt, and a failing retry is returned as an error with
\* no further attempt.
C24_CacheLimitRetriedOnceWithoutMarkers ==
    provider_ret.op = "chat" =>
        LET outcomes == provider_ret.outcomes
        IN  IF outcomes[1] = "CachedContentFreeTier"
            THEN /\ Len(acompletion_calls) = 2
                 /\ \A i \in 1..Len(acompletion_calls[2].messages) :
                       ~HasMarker(acompletion_calls[2].messages[i])
                 /\ provider_ret.value = ChatResponse(outcomes[2])
            ELSE /\ Len(acompletion_calls) = 1
                 /\ outcomes[1] # "completion" =>
                       provider_ret.value.finish_reason = "error"

\* The tool messages m[a..e] that end at e with no tool message before a
RECURSIVE ToolRunFirst(_, _)
ToolRunFirst(m, e) ==
    IF e > 1 /\ m[e - 1].role = "tool" THEN ToolRunFirst(m, e - 1) ELSE e

\* The image blocks of the maximal run of tool messages that ends at e
RunImages(m, e) ==
    LET a == ToolRunFirst(m, e)
    IN  Concat([k \in 1..(e - a + 1) |-> ImagesOf(m[a + k - 1].content)])

\* The last indices of the maximal runs of tool messages that hold an image
ImageRunEnds(m) ==
    {e \in 1..Len(m) :
        /\ m[e].role = "tool"
        /\ e = Len(m) \/ m[e + 1].role # "tool"
        /\ RunImages(m, e) # <<>>}

\* Where message i of m is in the result, one synthetic message after each
\* earlier run with images
PlaceOf(m, i) == i + Cardinality({e \in ImageRunEnds(m) : e < i})

\* C29: _adapt_tool_images: for every message list, the result contains no
\* tool message with list content; every non-tool message is passed through
\* unchanged and in order; each maximal run of consecutive tool messages
\* that contained at least one image block is followed immediately by
\* exactly one synthetic user message carrying all image blocks of that run
\* in their original order; and no synthetic message is inserted after a
\* run without images.
C29_ToolImagesMoveToOneUserMessagePerRun ==
    provider_ret.op = "_adapt_tool_images" =>
        LET m == provider_ret.messages
            r == provider_ret.value
        IN  /\ Len(r) = Len(m) + Cardinality(ImageRunEnds(m))
            /\ \A k \in 1..Len(r) : r[k].role = "tool" => r[k].content.str
            /\ \A i \in 1..Len(m) :
                  IF m[i].role # "tool" THEN r[PlaceOf(m, i)] = m[i]
                  ELSE /\ r[PlaceOf(m, i)].role = "tool"
                       /\ r[PlaceOf(m, i)].tool_call_id = m[i].tool_call_id
            /\ \A e \in ImageRunEnds(m) :
                  /\ r[PlaceOf(m, e) + 1].role = "user"
                  /\ ImagesOf(r[PlaceOf(m, e) + 1].content) = RunImages(m, e)

C29_Witness ==
    /\ provider_ret.op = "_adapt_tool_images"
    /\ Len(provider_ret.messages) = 3
    /\ provider_ret.messages[1].role = "tool"
    /\ Len(ImagesOf(provider_ret.messages[1].content)) = 2
    /\ provider_ret.messages[2].role = "tool"
    /\ Len(ImagesOf(provider_ret.messages[2].content)) = 1
    /\ provider_ret.messages[3].role = "user"
    /\ Len(provider_ret.value) = 4
    /\ Len(ImagesOf(provider_ret.value[3].content)) = 3

\* The number of cache_control keys in a message list
MarkerCount(r) ==
    Cardinality({i \in 1..Len(r) : r[i].cache_control})
    + Cardinality({ik \in (1..Len(r)) \X (1..3) :
                      /\ ik[2] <= Len(r[ik[1]].content.blocks)
                      /\ r[ik[1]].content.blocks[ik[2]].cache_control})

\* The message of the sliding boundary: the last tool message, without one
\* the user message before the last user message, 0 without either
SlidingBoundary(m) ==
    LET tools == WithRole(m, "tool")
        users == WithRole(m, "user")
    IN  IF tools # {} THEN CHOOSE i \in tools : \A j \in tools : j <= i
        ELSE IF Cardinality(users) >= 2
        THEN CHOOSE i \in users : Cardinality({j \in users : j > i}) = 1
        ELSE 0

SystemBoundary(m) ==
    LET systems == WithRole(m, "system")
    IN  IF systems = {} THEN 0 ELSE CHOOSE i \in systems : \A j \in systems : i <= j

\* C30 as stated: _inject_cache_control places at most two cache markers
\* and never modifies the caller's message list: one on the first system
\* message, and one on the last tool message if any tool message exists,
\* otherwise on the second-to-last user message if there are at least two
\* user messages; all other messages are returned without a marker.
C30_MarkersOnBothBoundaries ==
    provider_ret.op = "_inject_cache_control" =>
        LET m == provider_ret.messages
            r == provider_ret.value
            boundaries == {SystemBoundary(m), SlidingBoundary(m)} \ {0}
        IN  /\ chat_messages = m
            /\ Len(r) = Len(m)
            /\ MarkerCount(r) <= 2
            /\ \A i \in boundaries : HasMarker(r[i])
            /\ \A i \in (1..Len(m)) \ boundaries : r[i] = m[i] /\ ~HasMarker(r[i])

\* The content can carry a marker: a str, or a list with a block
Markable(content) == content.str \/ content.blocks # <<>>

\* C30 as amended: the marker of the system boundary, and of a sliding
\* boundary that is a user message, is placed when the content of that
\* message is a str or a non-empty list; a message whose content is an
\* empty list is returned without a marker.
C30_MarkersOnMarkableBoundaries ==
    provider_ret.op = "_inject_cache_control" =>
        LET m == provider_ret.messages
            r == provider_ret.value
            boundaries == {SystemBoundary(m), SlidingBoundary(m)} \ {0}
        IN  /\ chat_messages = m
            /\ Len(r) = Len(m)
            /\ MarkerCount(r) <= 2
            /\ \A i \in boundaries :
                  HasMarker(r[i]) <=> (m[i].role = "tool" \/ Markable(m[i].content))
            /\ \A i \in (1..Len(m)) \ boundaries : r[i] = m[i] /\ ~HasMarker(r[i])

C30_Witness ==
    /\ provider_ret.op = "_inject_cache_control"
    /\ Len(provider_ret.messages) = 3
    /\ provider_ret.messages[1].role = "user"
    /\ provider_ret.messages[2].role = "system"
    /\ provider_ret.messages[3].role = "user"
    /\ MarkerCount(provider_ret.value) = 2
    /\ HasMarker(provider_ret.value[1])
    /\ HasMarker(provider_ret.value[2])

----------------------------------------------------------------------------
(* The cron tool: adding a job (spec 4.8, "Rejected at add time")          *)

MaxClock == 2           \* cap on the wall clock
MaxJobs  == 2           \* cap on the jobs of the store

\* the least `after`, in seconds
MinAfter == 10

\* The schedule parameters of an add: none, after=<seconds>, at=<instant>
\* or every=<seconds>
Schedules ==
    {[kind |-> "none", value |-> 0]}
    \cup {[kind |-> "after", value |-> n] :
             n \in {0, MinAfter - 1, MinAfter, MinAfter + 1}}
    \cup {[kind |-> "at", value |-> t] : t \in 0..(MaxClock + 1)}
    \cup {[kind |-> "every", value |-> 60]}

\* `after` is below the minimum
RejectsAfter_never(after) == FALSE
RejectsAfter(after) == after < MinAfter

\* `at` lies in the past
RejectsAt(at, clock) == at < clock

\* The string an add returns, as its parts; <<>> when the add is accepted
AddError(schedule, clock) ==
    IF schedule.kind = "none"
    THEN <<"Error", ": one of every, at or ", "after", " is required">>
    ELSE IF schedule.kind = "after" /\ RejectsAfter(schedule.value)
    THEN <<"Error", ": 'after' must be ", "at least 10", " seconds">>
    ELSE IF schedule.kind = "at" /\ RejectsAt(schedule.value, clock)
    THEN <<"Error", ": 'at' is in the ", "past">>
    ELSE <<>>

\* The job an accepted add stores: after=n is a one-shot job n seconds from
\* now
NewJob(id, schedule, clock) ==
    IF schedule.kind = "every"
    THEN [id |-> id, kind |-> "every", at |-> 0, every |-> schedule.value]
    ELSE [id |-> id, kind |-> "at", every |-> 0,
          at |-> IF schedule.kind = "after" THEN clock + schedule.value
                 ELSE schedule.value]

\* execute(action="add", message=..., after / at / every)
cron_add(schedule) ==
    /\ AddError(schedule, wall_clock) # <<>> \/ Len(cron_jobs) < MaxJobs
    /\ LET error == AddError(schedule, wall_clock)
           job   == NewJob(Len(cron_jobs) + 1, schedule, wall_clock)
       IN  /\ cron_jobs' = IF error # <<>> THEN cron_jobs ELSE Append(cron_jobs, job)
           /\ cron_ret' = [op |-> "add", schedule |-> schedule, clock |-> wall_clock,
                           jobs |-> cron_jobs,
                           result |-> IF error # <<>> THEN error
                                      ELSE <<"Created job">>]
    /\ UNCHANGED wall_clock
    /\ UNCHANGED notCron

\* datetime.now() advances
ClockTick ==
    /\ wall_clock < MaxClock
    /\ wall_clock' = wall_clock + 1
    /\ UNCHANGED <<cron_jobs, cron_ret>>
    /\ UNCHANGED notCron

\* A cron tool over an empty store
CronInit ==
    /\ MgrFresh
    /\ FbIdle
    /\ browser_manager = FALSE
    /\ agent_files = [workspace |-> <<>>, builtin |-> <<>>]
    /\ ret = NoReturn("untraced")
    /\ FileIdle
    /\ LoaderIdle
    /\ ProviderIdle
    /\ CompactIdle
    /\ WebIdle
    /\ CronIdle
    /\ BrowserIdle

CronNext ==
    \/ \E schedule \in Schedules : cron_add(schedule)
    \/ ClockTick

CronSpec == CronInit /\ [][CronNext]_vars

----------------------------------------------------------------------------
(* Claims about the cron tool *)

\* C25: adding a cron job is rejected, with a returned string containing
\* "Error", when `after` is less than 10 seconds or when `at` lies in the
\* past; a rejected add leaves the set of stored jobs unchanged.
C25_EarlyOrPastAddIsRejected ==
    cron_ret.op = "add" =>
        LET schedule == cron_ret.schedule
            rejected == \E k \in 1..Len(cron_ret.result) : cron_ret.result[k] = "Error"
        IN  /\ (schedule.kind = "after" /\ schedule.value < 10) => rejected
            /\ (schedule.kind = "at" /\ schedule.value < cron_ret.clock) => rejected
            /\ rejected => cron_jobs = cron_ret.jobs

C25_Witness ==
    /\ cron_ret.op = "add"
    /\ cron_ret.schedule = [kind |-> "after", value |-> 9]
    /\ cron_ret.result[1] = "Error"
    /\ Len(cron_jobs) = 1 /\ cron_jobs = cron_ret.jobs

----------------------------------------------------------------------------
(* The compactor (spec 4.4, "Compaction policy")                           *)

MaxHistory == 3         \* longest session history
KeepRecent == 1         \* the k most recent messages that are kept verbatim

\* The histories of a session: its messages by role, oldest first
Histories == UNION {[1..n -> {"user", "assistant", "tool"}] : n \in 0..MaxHistory}

\* What the call wrapper returns for the summarisation call: no response,
\* an error response, or a response with the summary
SummaryResponses ==
    {[kind |-> "none", content |-> "", finish_reason |-> ""],
     [kind |-> "error", content |-> "API error", finish_reason |-> "error"],
     [kind |-> "text", content |-> "summary", finish_reason |-> "stop"]}

\* policy 3: there is a response and it is not an error
Summarised_any(response) == response.kind # "none"
Summarised(response) == response.kind # "none" /\ response.finish_reason # "error"

\* policy 1: the number of messages before the compaction boundary
Boundary(history) == IF Len(history) > KeepRecent THEN Len(history) - KeepRecent ELSE 0

\* policy 4: the summarised prefix replaced by one message with the summary
Compacted(history, summary) ==
    <<summary>> \o SubSeq(history, Boundary(history) + 1, Len(history))

\* compact(session, ..., messages, new_start, ...): messages is the context
\* built for the session (the system prompt, then its history) and
\* new_start the index of the first message of the current turn
compact(new_start, response) ==
    LET messages == <<"system">> \o session
        done     == Summarised(response) /\ Boundary(session) > 0
        after    == Compacted(session, response.content)
    IN  /\ new_start \in 1..(Len(messages) + 1)
        /\ session' = IF done THEN after ELSE session
        /\ compact_ret' =
              [op |-> "compact", response |-> response,
               messages |-> messages, new_start |-> new_start, session |-> session,
               value |-> IF done
                         THEN [messages |-> <<"system">> \o after,
                               new_start |-> IF new_start > Boundary(session) + 1
                                             THEN new_start - Boundary(session) + 1
                                             ELSE 2]
                         ELSE [messages |-> messages, new_start |-> new_start]]
        /\ UNCHANGED notCompact

\* A compactor over a session with any history
CompactInit ==
    /\ MgrFresh
    /\ FbIdle
    /\ browser_manager = FALSE
    /\ agent_files = [workspace |-> <<>>, builtin |-> <<>>]
    /\ ret = NoReturn("untraced")
    /\ FileIdle
    /\ LoaderIdle
    /\ ProviderIdle
    /\ CronIdle
    /\ BrowserIdle
    /\ WebIdle
    /\ session \in Histories
    /\ compact_ret = [op |-> "init"]

CompactNext ==
    \E new_start \in 1..(MaxHistory + 2), response \in SummaryResponses :
        compact(new_start, response)

CompactSpec == CompactInit /\ [][CompactNext]_vars

----------------------------------------------------------------------------
(* Claims about the compactor *)

\* C26: when the summarisation LLM call of a compaction returns no response
\* or a response with finish_reason "error", compact returns the original
\* messages and the original start index unchanged, so no history is
\* removed or replaced.
C26_FailedSummaryKeepsTheHistory ==
    (/\ compact_ret.op = "compact"
     /\ \/ compact_ret.response.kind = "none"
        \/ compact_ret.response.finish_reason = "error") =>
        /\ compact_ret.value.messages = compact_ret.messages
        /\ compact_ret.value.new_start = compact_ret.new_start
        /\ session = compact_ret.session

C26_Witness ==
    /\ compact_ret.op = "compact"
    /\ compact_ret.response.finish_reason = "error"
    /\ Len(compact_ret.session) = 3
    /\ compact_ret.new_start = 4
    /\ compact_ret.value = [messages |-> compact_ret.messages, new_start |-> 4]
    /\ session = compact_ret.session

----------------------------------------------------------------------------
(* WebChannel, outbound: ragnarbot/channels/web.py:88-118, 183-187         *)
(*                                                                         *)
(* One web client (one chat_id).  A call of send is two steps when it      *)
(* sends a final message: `await self._ws_send(ws, payload)` gives the     *)
(* handler of the socket the chance to see it close before the typing-off  *)
(* frame is tried.  The calls of send follow one another.                  *)

MaxSends == 2           \* cap on the calls of send

\* OutboundMessage.metadata: the recognised keys, each absent or truthy
Metadatas ==
    [chat_action : {"", "typing"}, intermediate : BOOLEAN, reaction : BOOLEAN,
     media_type : BOOLEAN, keep_typing : BOOLEAN]

TypingOn  == [type |-> "typing", active |-> TRUE, intermediate |-> FALSE]
TypingOff == [type |-> "typing", active |-> FALSE, intermediate |-> FALSE]

\* web.py:107-112
MessageFrame(metadata) ==
    [type |-> "message", active |-> FALSE, intermediate |-> metadata.intermediate]

\* web.py:117  `not is_intermediate and not msg.metadata.get("keep_typing")`
StopsTyping_always(metadata) == TRUE
StopsTyping(metadata) == ~metadata.intermediate /\ ~metadata.keep_typing

\* a call of send: its metadata, whether the client was connected when it
\* began, the frames it has sent, where it is, and whether the socket it
\* holds (`ws`, web.py:90) closed after its message frame
SendCall(metadata, connected, frames, pc) ==
    [metadata |-> metadata, connected |-> connected, frames |-> frames, pc |-> pc,
     cut |-> FALSE]

\* no call of send is between its two frames
SendIdle == IF Len(web_sends) = 0 THEN TRUE ELSE web_sends[Len(web_sends)].pc = "done"

\* web.py:88-114: send up to the end of its first _ws_send
send(metadata) ==
    /\ SendIdle
    /\ Len(web_sends) < MaxSends
    /\ web_sends' = Append(web_sends,
          IF ws_conn # "open"
          THEN SendCall(metadata, FALSE, <<>>, "done")
          ELSE IF metadata.chat_action = "typing"
          THEN SendCall(metadata, TRUE, <<TypingOn>>, "done")
          ELSE IF metadata.reaction \/ metadata.media_type
          THEN SendCall(metadata, TRUE, <<>>, "done")
          ELSE SendCall(metadata, TRUE, <<MessageFrame(metadata)>>,
                        IF StopsTyping(metadata) THEN "typing_off" ELSE "done"))
    /\ UNCHANGED ws_conn
    /\ UNCHANGED <<connVars, notWeb>>

\* web.py:116-118 with _ws_send (183-187): the typing-off frame, unless the
\* socket has closed
SendTypingOff ==
    /\ ~SendIdle
    /\ web_sends' = [web_sends EXCEPT ![Len(web_sends)] =
          [@ EXCEPT !.pc = "done",
                    !.frames = IF ~web_sends[Len(web_sends)].cut
                               THEN Append(@, TypingOff) ELSE @]]
    /\ UNCHANGED ws_conn
    /\ UNCHANGED <<connVars, notWeb>>

\* web.py:145-149: a client says hello and its socket is registered
Hello ==
    /\ ws_conn = "none"
    /\ ws_conn' = "open"
    /\ UNCHANGED web_sends
    /\ UNCHANGED <<connVars, notWeb>>

\* the socket of the client closes: a call of send that holds it sees
\* `ws.closed` at its next _ws_send
SocketCloses ==
    /\ ws_conn = "open"
    /\ ws_conn' = "closed"
    /\ web_sends' = IF SendIdle THEN web_sends
                    ELSE [web_sends EXCEPT ![Len(web_sends)].cut = TRUE]
    /\ UNCHANGED <<connVars, notWeb>>

\* web.py:171-174: the handler of a closed socket removes it
Cleanup ==
    /\ ws_conn = "closed"
    /\ ws_conn' = "none"
    /\ UNCHANGED web_sends
    /\ UNCHANGED <<connVars, notWeb>>

\* A web channel without a client
WebInit ==
    /\ MgrFresh
    /\ FbIdle
    /\ browser_manager = FALSE
    /\ agent_files = [workspace |-> <<>>, builtin |-> <<>>]
    /\ ret = NoReturn("untraced")
    /\ FileIdle
    /\ LoaderIdle
    /\ ProviderIdle
    /\ CronIdle
    /\ BrowserIdle
    /\ CompactIdle
    /\ WebIdle

WebNext ==
    \/ \E metadata \in Metadatas : send(metadata)
    \/ SendTypingOff
    \/ Hello
    \/ SocketCloses
    \/ Cleanup

WebSpec == WebInit /\ [][WebNext]_vars

----------------------------------------------------------------------------
(* Claims about the web channel *)

\* The calls of send that have returned
Returned_sends == {c \in 1..Len(web_sends) : web_sends[c].pc = "done"}

\* frame k of the call is a delivered message
IsMessageAt(call, k) == call.frames[k].type = "message"

\* C27 as stated: a message with chat_action=typing produces only a
\* typing-on frame; a message carrying reaction or media_type metadata
\* produces no frame; every delivered non-intermediate message without
\* keep_typing is immediately followed by a typing-off frame; and an
\* intermediate message or one with keep_typing is never followed by a
\* typing-off frame.
C27_FramesFollowTheMetadata ==
    \A c \in Returned_sends :
        LET call == web_sends[c]
            metadata == call.metadata
        IN  /\ metadata.chat_action = "typing" =>
                  /\ \A k \in 1..Len(call.frames) : call.frames[k] = TypingOn
                  /\ call.connected => call.frames = <<TypingOn>>
            /\ (metadata.reaction \/ metadata.media_type) => call.frames = <<>>
            /\ \A k \in 1..Len(call.frames) :
                  (IsMessageAt(call, k) /\ ~metadata.intermediate /\ ~metadata.keep_typing)
                      => (k < Len(call.frames) /\ call.frames[k + 1] = TypingOff)
            /\ (metadata.intermediate \/ metadata.keep_typing) =>
                  \A k \in 1..Len(call.frames) :
                      IsMessageAt(call, k) => call.frames = <<MessageFrame(metadata)>>

\* C27 as amended: the typing indicator is handled first, so reaction or
\* media_type metadata suppress the frames of a message that is not a
\* typing indicator; and the typing-off frame follows a delivered final
\* message unless the socket closed after the message frame.  In
\* every call, a typing-off frame is sent only right after a delivered
\* non-intermediate message without keep_typing.
C27_FramesFollowTheMetadataInOrder ==
    \A c \in 1..Len(web_sends) :
        LET call == web_sends[c]
            metadata == call.metadata
            final == ~metadata.intermediate /\ ~metadata.keep_typing
        IN  /\ metadata.chat_action = "typing" =>
                  /\ \A k \in 1..Len(call.frames) : call.frames[k] = TypingOn
                  /\ call.connected => call.frames = <<TypingOn>>
            /\ (metadata.chat_action # "typing"
                /\ (metadata.reaction \/ metadata.media_type)) => call.frames = <<>>
            /\ \A k \in 1..Len(call.frames) :
                  (IsMessageAt(call, k) /\ final /\ call.pc = "done" /\ ~call.cut)
                      => (k < Len(call.frames) /\ call.frames[k + 1] = TypingOff)
            /\ \A k \in 1..Len(call.frames) :
                  call.frames[k] = TypingOff =>
                      (k = 2 /\ IsMessageAt(call, 1) /\ final)
            /\ ~final => \A k \in 1..Len(call.frames) : call.frames[k] # TypingOff

C27_Witness ==
    /\ Len(web_sends) = 2
    /\ web_sends[1].metadata.intermediate
    /\ web_sends[1].frames = <<MessageFrame(web_sends[1].metadata)>>
    /\ ~web_sends[2].metadata.intermediate /\ ~web_sends[2].metadata.keep_typing
    /\ web_sends[2].pc = "done"
    /\ web_sends[2].frames = <<MessageFrame(web_sends[2].metadata), TypingOff>>

----------------------------------------------------------------------------
(* Further claims about the sub-agent manager *)

\* C39 as stated: spawn never replaces a task that is already tracked: the
\* id of a new task differs from the id of every task in the task map, so
\* the entry of a tracked task is never handed to another task.
C39_SpawnNeverReplacesATask ==
    [][\A id \in 1..NumIds :
          (_tasks[id] # 0 /\ _tasks'[id] # 0) => _tasks'[id] = _tasks[id]]_vars

\* asyncio.Task.cancel() on a background run (spec: a sub-agent task accepts
\* a cancellation signal).  CancelledError is raised at the await the
\* coroutine is suspended at, or instead of its first step; it is a
\* BaseException, so `except Exception` (subagent.py:319) lets it through
\* and the coroutine ends without touching the task.  The done callback
\* (subagent.py:180, 407) runs.
cancel(r) ==
    /\ runs[r].pc # "done"
    /\ runs' = [runs EXCEPT ![r].pc = "done"]
    /\ _async_tasks' = [_async_tasks EXCEPT ![runs[r].id] = 0]
    /\ UNCHANGED <<objs, _tasks, bus, browser_manager, agent_files, progress, ret>>
    /\ UNCHANGED fbVars

CancelNext ==
    \/ \E id \in SpawnIds : spawn(NoAgent, NoModel, id, <<"cli", "direct">>)
    \/ \E id \in 1..NumIds : send_message(id)
    \/ \E id \in 1..NumIds : stop_task(id)
    \/ \E r \in 1..Len(runs) : RunStart(r)
    \/ \E r \in 1..Len(runs), resp \in PlainResponses : LLMReply(r, resp)
    \/ \E r \in 1..Len(runs) : Announce(r)
    \/ \E r \in 1..Len(runs) : cancel(r)

\* The manager whose background runs may be cancelled
CancelSpec == MgrInit /\ [][CancelNext]_vars

\* the run is executing the loop of its task: it has not reached a final
\* status yet
Executing(r) == runs[r].pc \in {"start", "llm", "tool"}

\* C31 as stated: a task whose status is running has a live background run
\* that will set it to a terminal status; no task stays running with no run
\* executing it, also after the background run is cancelled.
C31_RunningTaskHasARun ==
    \A t \in Tasks : objs[t].status = "running" => \E r \in RunsOf(t) : Executing(r)

\* the history starts with the system prompt, and every tool message comes
\* after an assistant message that carries its tool_call_id
WellFormed(m) ==
    /\ Len(m) > 0 => m[1] = Msg("system", "system_prompt")
    /\ \A i \in 1..Len(m) :
          m[i].role = "tool" =>
              \E j \in 1..(i - 1) :
                  /\ m[j].role = "assistant"
                  /\ \E k \in 1..Len(m[j].tool_calls) :
                        m[j].tool_calls[k].id = m[i].tool_call_id

IsPrefix(a, b) == Len(a) <= Len(b) /\ SubSeq(b, 1, Len(a)) = a

----------------------------------------------------------------------------
(* FallbackState across a restart of the process *)

\* fallback.py:17, 35-38: load builds the object with cls(consecutive_failures=...,
\* fallback_mode=...), so last_primary_probe is the default_factory reading
\* of time.monotonic() at the load, whatever it was in the object saved
ProbeAtLoad_saved(saved_probe, t) == saved_probe
ProbeAtLoad(saved_probe, t) == t

\* fallback.py:30-42: the process goes on with the object FallbackState.load()
\* returns, for a state file that holds an int and a bool.  `at` keeps the
\* time of the load.
restart ==
    /\ LET st == LoadFrom(state_file)
       IN  /\ st.raised = ""
           /\ st.consecutive_failures.kind = "int"
           /\ st.fallback_mode.kind = "bool"
           /\ consecutive_failures' = st.consecutive_failures.int
           /\ fallback_mode' = st.fallback_mode.bool
           /\ streak' = st.consecutive_failures.int
           /\ loaded' = [raised |-> "", consecutive_failures |-> st.consecutive_failures,
                         fallback_mode |-> st.fallback_mode, at |-> now]
    /\ last_primary_probe' = ProbeAtLoad(last_primary_probe, now)
    /\ fb_op' = "restart"
    /\ fb_ret' = FALSE
    /\ fb_prev' = <<consecutive_failures, fallback_mode>>
    /\ UNCHANGED <<threshold, now, state_file>>
    /\ UNCHANGED <<mgrOwn, libVars>>

\* a fresh FallbackState in a process without a state file
RestartInit ==
    /\ FileInit
    /\ state_file = NoFile

RestartNext ==
    \/ record_primary_failure
    \/ record_primary_success
    \/ should_probe_primary
    \/ mark_primary_probed
    \/ Tick
    \/ save
    \/ restart

RestartSpec == RestartInit /\ [][RestartNext]_vars

\* C33: the probe timer is not persisted: a FallbackState obtained from
\* load() with fallback_mode true reports should_probe_primary(interval)
\* false until a full interval has elapsed after the load, whenever the
\* primary was last probed before the state was saved.
C33_ProbeTimerRestartsAtLoad ==
    [][(/\ fb_op' = "should_probe"
        /\ now' = now
        /\ fallback_mode
        /\ loaded.raised = ""
        /\ now - loaded.at < fb_prev'[3]) => ~fb_ret']_vars

\* a probe refused after a load although the interval had elapsed since the
\* state was built, and no probe was marked after the load
C33_Witness ==
    /\ fb_op = "should_probe"
    /\ fallback_mode
    /\ ~fb_ret
    /\ loaded.raised = ""
    /\ loaded.at = last_primary_probe
    /\ now - loaded.at < fb_prev[3]
    /\ fb_prev[3] <= now

----------------------------------------------------------------------------
(* The stream parsers of the Gemini Code Assist and OpenAI ChatGPT         *)
(* providers: gemini_provider.py:120-194, openai_chatgpt_provider.py:85-176 *)

MaxEvents == 2          \* longest SSE stream, in events

\* A Gemini event carries one candidate: at most one part, which is a text,
\* a functionCall or a thought, and the finishReason of the candidate ("" when
\* it has none)
GeminiEvents ==
    [part : {"", "text", "functionCall", "thought"},
     finishReason : {"", "STOP", "MAX_TOKENS", "SAFETY"}]

\* An event of the OpenAI Responses stream, by its type; response.incomplete
\* ends a response that reached max_output_tokens
OpenAIEvents ==
    {"response.output_text.delta", "response.output_item.added",
     "response.function_call_arguments.delta", "response.function_call_arguments.done",
     "response.completed", "response.incomplete"}

StreamsOf(events) == UNION {[1..n -> events] : n \in 0..MaxEvents}

\* what a parser keeps while it reads its stream
ParserStart == [text_parts |-> 0, tool_calls |-> 0, pending |-> FALSE, finish_reason |-> "stop"]

\* gemini_provider.py:149-173: one event
GeminiEvent(st, event) ==
    LET parts == IF event.part = "text" THEN [st EXCEPT !.text_parts = @ + 1]
                 ELSE IF event.part = "functionCall" THEN [st EXCEPT !.tool_calls = @ + 1]
                 ELSE st
    IN  IF event.finishReason = "STOP" THEN [parts EXCEPT !.finish_reason = "stop"]
        ELSE IF event.finishReason = "MAX_TOKENS" THEN [parts EXCEPT !.finish_reason = "length"]
        ELSE parts

\* openai_chatgpt_provider.py:116-166: one event; the function call has one
\* item id
OpenAIEvent(st, event) ==
    IF event = "response.output_text.delta" THEN [st EXCEPT !.text_parts = @ + 1]
    ELSE IF event = "response.output_item.added" THEN [st EXCEPT !.pending = TRUE]
    ELSE IF event = "response.function_call_arguments.done" /\ st.pending
    THEN [st EXCEPT !.pending = FALSE, !.tool_calls = @ + 1]
    ELSE st

RECURSIVE GeminiParse(_, _)
GeminiParse(stream, n) ==
    IF n = 0 THEN ParserStart ELSE GeminiEvent(GeminiParse(stream, n - 1), stream[n])

RECURSIVE OpenAIParse(_, _)
OpenAIParse(stream, n) ==
    IF n = 0 THEN ParserStart ELSE OpenAIEvent(OpenAIParse(stream, n - 1), stream[n])

\* gemini_provider.py:183-191, openai_chatgpt_provider.py:166-174: the
\* LLMResponse returned after the stream
StreamResponse(st) ==
    [content |-> IF st.text_parts > 0 THEN "text" ELSE "None",
     tool_calls |-> st.tool_calls,
     finish_reason |-> IF st.tool_calls > 0 THEN "tool_calls" ELSE st.finish_reason]

\* GeminiCodeAssistProvider._stream_request on a stream
gemini_stream_request(stream) ==
    /\ provider_ret' = [op |-> "gemini", stream |-> stream,
                        response |-> StreamResponse(GeminiParse(stream, Len(stream)))]
    /\ UNCHANGED <<chat_messages, acompletion_calls>>
    /\ UNCHANGED notProvider

\* OpenAIChatGPTProvider._stream_request on a stream
openai_stream_request(stream) ==
    /\ provider_ret' = [op |-> "openai", stream |-> stream,
                        response |-> StreamResponse(OpenAIParse(stream, Len(stream)))]
    /\ UNCHANGED <<chat_messages, acompletion_calls>>
    /\ UNCHANGED notProvider

StreamInit ==
    /\ MgrFresh
    /\ FbIdle
    /\ LibIdle
    /\ browser_manager = FALSE
    /\ agent_files = [workspace |-> <<>>, builtin |-> <<>>]
    /\ ret = NoReturn("untraced")

StreamNext ==
    \/ \E stream \in StreamsOf(GeminiEvents) : gemini_stream_request(stream)
    \/ \E stream \in StreamsOf(OpenAIEvents) : openai_stream_request(stream)

StreamSpec == StreamInit /\ [][StreamNext]_vars

\* the response of the stream was cut off at the token limit
CutOff(op, stream) ==
    IF op = "gemini"
    THEN \E k \in 1..Len(stream) :
            /\ stream[k].finishReason = "MAX_TOKENS"
            /\ \A j \in (k + 1)..Len(stream) : stream[j].finishReason = ""
    ELSE \E k \in 1..Len(stream) : stream[k] = "response.incomplete"

\* C34 as stated: a provider response that was cut off at the token limit
\* is always reported with finish_reason 'length', also when it contains
\* tool calls: the Gemini Code Assist and OpenAI ChatGPT stream parsers
\* never report a truncated response that carries tool calls as
\* finish_reason 'tool_calls'.
C34_CutOffResponseIsLength ==
    (provider_ret.op \in {"gemini", "openai"} /\ CutOff(provider_ret.op, provider_ret.stream))
        => provider_ret.response.finish_reason = "length"

----------------------------------------------------------------------------
(* WebChannel, the connection map over several websockets:                 *)
(* ragnarbot/channels/web.py:129-177                                       *)

NumSockets == 2         \* websockets 1..NumSockets

\* the chat_id values of hello frames; "" is a hello without chat_id
ChatIds == {"c", "d"}

\* web.py:130-133: a handler that has not accepted its socket yet; the
\* local chat_id None is "" (both are falsy); inbound counts the messages
\* it passed to _handle_message
FreshHandler == [state |-> "new", chat_id |-> "", inbound |-> 0]

\* self._connections.pop(chat_id, None)
Pop(connections, chat_id) == [connections EXCEPT ![chat_id] = 0]

\* web.py:130-131: the socket is accepted
Accept(w) ==
    /\ ws_handlers[w].state = "new"
    /\ ws_handlers' = [ws_handlers EXCEPT ![w].state = "open"]
    /\ UNCHANGED <<_connections, ws_conn, web_sends>>
    /\ UNCHANGED notWeb

\* web.py:145-150: a hello frame
hello(w, chat_id) ==
    /\ ws_handlers[w].state = "open"
    /\ ws_handlers' = [ws_handlers EXCEPT ![w].chat_id = chat_id]
    /\ _connections' = IF chat_id # "" THEN [_connections EXCEPT ![chat_id] = w]
                       ELSE _connections
    /\ UNCHANGED <<ws_conn, web_sends>>
    /\ UNCHANGED notWeb

\* web.py:152-159: a message frame with content
message(w) ==
    /\ ws_handlers[w].state = "open"
    /\ ws_handlers[w].inbound = 0
    /\ ws_handlers' = [ws_handlers EXCEPT
                         ![w].inbound = IF ws_handlers[w].chat_id # "" THEN 1 ELSE @]
    /\ UNCHANGED <<_connections, ws_conn, web_sends>>
    /\ UNCHANGED notWeb

\* web.py:161-166: the command new_chat
new_chat(w) ==
    /\ ws_handlers[w].state = "open"
    /\ IF ws_handlers[w].chat_id # ""
       THEN /\ _connections' = Pop(_connections, ws_handlers[w].chat_id)
            /\ ws_handlers' = [ws_handlers EXCEPT ![w].chat_id = ""]
       ELSE UNCHANGED <<_connections, ws_handlers>>
    /\ UNCHANGED <<ws_conn, web_sends>>
    /\ UNCHANGED notWeb

\* web.py:135, 172-175: the socket closes, the loop of the handler ends and
\* the handler cleans up
disconnect(w) ==
    /\ ws_handlers[w].state = "open"
    /\ ws_handlers' = [ws_handlers EXCEPT ![w].state = "closed"]
    /\ _connections' = IF ws_handlers[w].chat_id # ""
                       THEN Pop(_connections, ws_handlers[w].chat_id)
                       ELSE _connections
    /\ UNCHANGED <<ws_conn, web_sends>>
    /\ UNCHANGED notWeb

\* A web channel before any client connects
ConnInit ==
    /\ MgrFresh
    /\ FbIdle
    /\ browser_manager = FALSE
    /\ agent_files = [workspace |-> <<>>, builtin |-> <<>>]
    /\ ret = NoReturn("untraced")
    /\ FileIdle
    /\ LoaderIdle
    /\ ProviderIdle
    /\ CronIdle
    /\ BrowserIdle
    /\ CompactIdle
    /\ ws_conn = "none"
    /\ web_sends = <<>>
    /\ ws_handlers = [w \in 1..NumSockets |-> FreshHandler]
    /\ _connections = [c \in ChatIds |-> 0]

ConnNext ==
    \/ \E w \in 1..NumSockets : Accept(w)
    \/ \E w \in 1..NumSockets, chat_id \in ChatIds \cup {""} : hello(w, chat_id)
    \/ \E w \in 1..NumSockets : message(w)
    \/ \E w \in 1..NumSockets : new_chat(w)
    \/ \E w \in 1..NumSockets : disconnect(w)

ConnSpec == ConnInit /\ [][ConnNext]_vars

\* C36 as stated: while a websocket that registered chat_id c with hello is
\* still open and has not issued new_chat, the connection map entry for c
\* refers to an open websocket; the disconnect of another websocket that
\* used the same chat_id does not remove it.
C36_RegisteredChatKeepsItsEntry ==
    \A w \in 1..NumSockets :
        (ws_handlers[w].state = "open" /\ ws_handlers[w].chat_id # "") =>
            LET entry == _connections[ws_handlers[w].chat_id]
            IN  entry # 0 /\ ws_handlers[entry].state = "open"

\* C37 as stated: after a websocket has disconnected, no entry of the
\* connection map refers to it, whatever hello, message and new_chat frames
\* it sent before.
C37_NoEntryForAClosedSocket ==
    \A w \in 1..NumSockets :
        ws_handlers[w].state = "closed" => \A c \in ChatIds : _connections[c] # w

----------------------------------------------------------------------------
(* BrowserSessionManager, the idle watchdog of a session:                  *)
(* ragnarbot/agent/tools/browser.py:145-159, 306-323                       *)

IdleTimeout == 2        \* self._config.idle_timeout, in clock units
MaxBrowserClock == 4    \* cap on the clock of the browser manager

\* browser.py:145-151: the pending watchdog is cancelled (it ends in its
\* `except asyncio.CancelledError`) and a new one starts to sleep
_reset_idle_timer(browser, t) ==
    [browser EXCEPT !.last_activity = t, !.idle_task = "sleeping",
                    !.due = t + IdleTimeout]

\* browser.py:178-303: open creates the session and starts its watchdog
browser_open(persistent) ==
    /\ browser_session.browser = "none"
    /\ browser_session' =
          _reset_idle_timer([browser_session EXCEPT !.in_map = TRUE, !.browser = "open",
                                                    !.persistent = persistent],
                            browser_clock)
    /\ UNCHANGED browser_clock
    /\ UNCHANGED notBrowser

\* browser.py:347-348 and the like: every action looks the session up and
\* resets its idle timer (a session that is not in the map raises ValueError)
browser_action ==
    /\ browser_session.in_map
    /\ browser_session' = _reset_idle_timer(browser_session, browser_clock)
    /\ UNCHANGED browser_clock
    /\ UNCHANGED notBrowser

\* browser.py:306-323 called by the user: the session leaves the map, its
\* watchdog is cancelled and its browser or context is closed
browser_close ==
    /\ browser_session.in_map
    /\ browser_session' = [browser_session EXCEPT !.in_map = FALSE,
                                                  !.idle_task = "cancelled",
                                                  !.browser = "closed",
                                                  !.closed_by = "close",
                                                  !.closed_at = browser_clock]
    /\ UNCHANGED browser_clock
    /\ UNCHANGED notBrowser

\* browser.py:153-159 with close (306-323): the sleep of the watchdog is
\* over and it calls self.close(session_id).  close pops the session and
\* then cancels session.idle_task, which is the watchdog that is running
\* it: the CancelledError is raised at the next await, the close of the
\* context or browser (314-319), passes `except Exception` and ends in the
\* watchdog's `except asyncio.CancelledError`.  Whether Playwright had
\* carried the close out before that await suspended is not decided by
\* this code: either outcome.
_idle_watchdog ==
    /\ browser_session.idle_task = "sleeping"
    /\ browser_clock >= browser_session.due
    /\ \E carried_out \in BOOLEAN :
          browser_session' = [browser_session EXCEPT
                                 !.in_map = FALSE,
                                 !.idle_task = "cancelled",
                                 !.browser = IF carried_out THEN "closed" ELSE @,
                                 !.closed_by = "watchdog",
                                 !.closed_at = browser_clock]
    /\ UNCHANGED browser_clock
    /\ UNCHANGED notBrowser

\* time.time() advances
BrowserTick ==
    /\ browser_clock < MaxBrowserClock
    /\ browser_clock' = browser_clock + 1
    /\ UNCHANGED browser_session
    /\ UNCHANGED notBrowser

BrowserInit ==
    /\ MgrFresh
    /\ FbIdle
    /\ LibIdle
    /\ browser_manager = FALSE
    /\ agent_files = [workspace |-> <<>>, builtin |-> <<>>]
    /\ ret = NoReturn("untraced")

BrowserNext ==
    \/ \E persistent \in BOOLEAN : browser_open(persistent)
    \/ browser_action
    \/ browser_close
    \/ _idle_watchdog
    \/ BrowserTick

BrowserSpec == BrowserInit /\ [][BrowserNext]_vars

\* C38 as stated: when a browser session receives no action for
\* idle_timeout, its idle watchdog both removes it from the session map and
\* actually closes its browser or browser context; and every action on a
\* session cancels the pending watchdog and starts a new one, so a session is
\* never closed by the watchdog less than idle_timeout after its last action.
C38_WatchdogClosesTheIdleSession ==
    browser_session.closed_by = "watchdog" =>
        /\ ~browser_session.in_map
        /\ browser_session.browser = "closed"
        /\ browser_session.closed_at - browser_session.last_activity >= IdleTimeout

\* The part of C38 that the code keeps: the watchdog removes the session
\* from the map, and never less than idle_timeout after its last action
WatchdogRemovesInTime ==
    browser_session.closed_by = "watchdog" =>
        /\ ~browser_session.in_map
        /\ browser_session.closed_at - browser_session.last_activity >= IdleTimeout
====
